---- MODULE Spec2Model ----
(***************************************************************************)
(* Model of sgidisklib's EFS layer (src/sgidisklib/src/efs): the geometry  *)
(* derived from the superblock, the bounds checks, the inode facade with   *)
(* its extent normalisation, the block iterator and the directory listing; *)
(* of its volume header (src/sgidisklib/src/volhdr); and of sgidisktool's  *)
(* views of a volume header and its hash pass (src/sgidisktool/src).       *)
(*                                                                         *)
(* All quantities are the code's u64/usize values.  The inputs drawn below *)
(* keep every intermediate far below 2^31, so no operation of the code     *)
(* wraps or traps on overflow in any modelled run; a subtraction that the  *)
(* code performs on unsigned values is only modelled where the code has    *)
(* established that it cannot go below zero.                               *)
(***************************************************************************)
EXTENDS Integers, Sequences, FiniteSets, TLC

VARIABLES
  sb,     \* the raw superblock fields Efs::read decodes, with the caller's sector_sz and partition_start
  efs,    \* the result of Efs::read: Ok(Efs) or an error
  image,  \* the byte source: the image's basic blocks, by absolute block number
  call,   \* the operation performed last, with its arguments
  res,    \* what that operation returned
  io,     \* the bounds checks, seeks and reads that operation made on the byte source, in order
  iter,   \* the InodeBlockIter in the caller's hands (or none)
  out,    \* the values that iterator has returned so far, in order; or the view built of a volume header
  hash    \* the hash pass over the image file: fill_hashes' locals and the items it fills (or none)

vars == <<sb, efs, image, call, res, io, iter, out, hash>>

\* ------------------------------------------------------------------------
\* Program constants

EFS_BLOCK_SZ == 512
INODE_SIZE == 128
EXTENT_SIZE == 8
EFS_DIRECTEXTENTS == 12
EXTENT_DATA_AREA_SZ == 96
MAX_EXTENTS == 32767
INODE_MODE_MASK == 30583
INODE_TYPE_MASK == 61440
INODE_TYPE_FIFO == 4096
INODE_TYPE_FCHR == 8192
INODE_TYPE_FCHRLNK == 12288
INODE_TYPE_DIR == 16384
INODE_TYPE_BLK == 24576
INODE_TYPE_BLKLNK == 28672
INODE_TYPE_REG == 32768
INODE_TYPE_LNK == 40960
INODE_TYPE_SOCK == 49152

\* ------------------------------------------------------------------------
\* Results: Ok(v), or an error of SgidiskLibReadError (Unpack, Io, Value,
\* Bounds); "Panic" is a Rust panic (a division by zero, an index out of
\* range), which is no value of the taxonomy.

Ok(v) == [kind |-> "Ok", val |-> v]
Err(k) == [kind |-> k, val |-> <<>>]
IsOk(r) == r.kind = "Ok"

Min(a, b) == IF a <= b THEN a ELSE b

\* The sequence f, evaluated once (TLC would otherwise evaluate the
\* expression of an element each time it is read).
Tuple(f) == f \o <<>>

\* Bitwise and of two naturals below 2^16, as the code's u16 & u16.
RECURSIVE BitAnd(_, _)
BitAnd(a, b) ==
  IF a = 0 \/ b = 0 THEN 0
  ELSE (IF a % 2 = 1 /\ b % 2 = 1 THEN 1 ELSE 0) + 2 * BitAnd(a \div 2, b \div 2)

\* ------------------------------------------------------------------------
\* Efs: geometry derived from the superblock

\* The conversion taking the filesystem's size in basic blocks, not in the
\* caller's sectors.
EfsTryFrom_block_size(s, sector_sz) ==
  LET fs_cgisize_bytes == s.fs_cgisize * EFS_BLOCK_SZ IN
  IF s.fs_size < 0 THEN Err("Value")
  ELSE IF s.fs_firstcg < 0 THEN Err("Value")
  ELSE IF s.fs_cgfsize < 0 THEN Err("Value")
  ELSE IF ~(fs_cgisize_bytes >= 0 /\ fs_cgisize_bytes % INODE_SIZE = 0) THEN Err("Value")
  ELSE IF s.fs_ncg < 0 THEN Err("Value")
  ELSE Ok([sector_sz |-> sector_sz,
           partition_start |-> 0,
           size |-> s.fs_size * EFS_BLOCK_SZ,
           cg_start |-> s.fs_firstcg,
           cg_size |-> s.fs_cgfsize,
           cg_inodes |-> fs_cgisize_bytes \div INODE_SIZE,
           cg_count |-> s.fs_ncg])

\* The conversion without the test of fs_ncg.
EfsTryFrom_ncg_unchecked(s, sector_sz) ==
  LET fs_cgisize_bytes == s.fs_cgisize * EFS_BLOCK_SZ IN
  IF s.fs_size < 0 THEN Err("Value")
  ELSE IF s.fs_firstcg < 0 THEN Err("Value")
  ELSE IF s.fs_cgfsize < 0 THEN Err("Value")
  ELSE IF ~(fs_cgisize_bytes >= 0 /\ fs_cgisize_bytes % INODE_SIZE = 0) THEN Err("Value")
  ELSE Ok([sector_sz |-> sector_sz,
           partition_start |-> 0,
           size |-> s.fs_size * sector_sz,
           cg_start |-> s.fs_firstcg,
           cg_size |-> s.fs_cgfsize,
           cg_inodes |-> fs_cgisize_bytes \div INODE_SIZE,
           cg_count |-> s.fs_ncg])

\* TryFrom<(&EfsSuperblock, u64)> for Efs: each signed field narrowed to
\* u64 in the code's order, the first failure returned.
EfsTryFrom(s, sector_sz) ==
  LET fs_cgisize_bytes == s.fs_cgisize * EFS_BLOCK_SZ IN
  IF s.fs_size < 0 THEN Err("Value")
  ELSE IF s.fs_firstcg < 0 THEN Err("Value")
  ELSE IF s.fs_cgfsize < 0 THEN Err("Value")
  ELSE IF ~(fs_cgisize_bytes >= 0 /\ fs_cgisize_bytes % INODE_SIZE = 0) THEN Err("Value")
  ELSE IF s.fs_ncg < 0 THEN Err("Value")
  ELSE Ok([sector_sz |-> sector_sz,
           partition_start |-> 0,
           size |-> s.fs_size * sector_sz,
           cg_start |-> s.fs_firstcg,
           cg_size |-> s.fs_cgfsize,
           cg_inodes |-> fs_cgisize_bytes \div INODE_SIZE,
           cg_count |-> s.fs_ncg])

\* Efs::read: the superblock converted, then partition_start set.
EfsRead(s) ==
  LET r == EfsTryFrom(s, s.sector_sz) IN
  IF IsOk(r) THEN Ok([r.val EXCEPT !.partition_start = s.partition_start]) ELSE r

\* check_read_absolute without the test against the end of the partition.
check_read_absolute_no_end(e, start, len) ==
  IF start < e.partition_start THEN Err("Bounds") ELSE Ok(<<>>)

\* check_read_absolute refusing a range that ends exactly at the end of the
\* partition.
check_read_absolute_strict(e, start, len) ==
  IF start < e.partition_start THEN Err("Bounds")
  ELSE IF start + len >= e.partition_start + e.size THEN Err("Bounds")
  ELSE Ok(<<>>)

\* Efs::check_read_absolute
check_read_absolute(e, start, len) ==
  IF start < e.partition_start THEN Err("Bounds")
  ELSE IF start + len > e.partition_start + e.size THEN Err("Bounds")
  ELSE Ok(<<>>)

\* Efs::block_absolute
block_absolute(e, block) == e.partition_start + block * EFS_BLOCK_SZ

\* Efs::check_read_block
check_read_block(e, start_block, len) ==
  check_read_absolute(e, e.partition_start + start_block * EFS_BLOCK_SZ, len)

\* cg_start_rel with the cylinder group's size taken in bytes, not blocks.
cg_start_rel_unscaled(e, cg) ==
  LET rel_start == e.cg_start * EFS_BLOCK_SZ + cg * e.cg_size IN
  IF cg >= e.cg_count THEN Err("None")
  ELSE IF rel_start > e.size THEN Err("None")
  ELSE Ok(rel_start)

\* Efs::cg_start_rel: Ok(offset) for Some, Err("None") for None.
cg_start_rel(e, cg) ==
  LET rel_start == (e.cg_start + cg * e.cg_size) * EFS_BLOCK_SZ IN
  IF cg >= e.cg_count THEN Err("None")
  ELSE IF rel_start > e.size THEN Err("None")
  ELSE Ok(rel_start)

\* inode_start_rel with the inode's offset in its group taken from the whole
\* inode number.
inode_start_rel_no_mod(e, inode) ==
  IF e.cg_inodes = 0 THEN Err("Panic")
  ELSE LET cg == inode \div e.cg_inodes
           cgs == cg_start_rel(e, cg)
           inode_off == inode * INODE_SIZE
       IN IF IsOk(cgs) THEN Ok(cgs.val + inode_off) ELSE cgs

\* Efs::inode_start_rel: the division by cg_inodes panics when it is zero.
inode_start_rel(e, inode) ==
  IF e.cg_inodes = 0 THEN Err("Panic")
  ELSE LET cg == inode \div e.cg_inodes
           cgs == cg_start_rel(e, cg)
           inode_off == (inode % e.cg_inodes) * INODE_SIZE
       IN IF IsOk(cgs) THEN Ok(cgs.val + inode_off) ELSE cgs

\* Efs::inode_start
inode_start(e, inode) ==
  LET r == inode_start_rel(e, inode) IN
  IF IsOk(r) THEN Ok(e.partition_start + r.val)
  ELSE IF r.kind = "Panic" THEN r
  ELSE Err("Bounds")

\* ------------------------------------------------------------------------
\* Inode type and mode

InodeTypes ==
  {"Fifo", "CharacterSpecial", "CharacterSpecialLink", "Directory", "BlockSpecial",
   "BlockSpecialLink", "RegularFile", "SymbolicLink", "Socket"}

\* TryFrom<u16> for InodeType with the two block-special arms exchanged.
InodeTypeTryFrom_swapped(bit_type) ==
  LET itype_part == BitAnd(bit_type, INODE_TYPE_MASK) IN
  CASE itype_part = INODE_TYPE_FIFO -> Ok("Fifo")
    [] itype_part = INODE_TYPE_FCHR -> Ok("CharacterSpecial")
    [] itype_part = INODE_TYPE_FCHRLNK -> Ok("CharacterSpecialLink")
    [] itype_part = INODE_TYPE_DIR -> Ok("Directory")
    [] itype_part = INODE_TYPE_BLK -> Ok("BlockSpecialLink")
    [] itype_part = INODE_TYPE_BLKLNK -> Ok("BlockSpecial")
    [] itype_part = INODE_TYPE_REG -> Ok("RegularFile")
    [] itype_part = INODE_TYPE_LNK -> Ok("SymbolicLink")
    [] itype_part = INODE_TYPE_SOCK -> Ok("Socket")
    [] OTHER -> Err("String")

\* TryFrom<u16> for InodeType
InodeTypeTryFrom(bit_type) ==
  LET itype_part == BitAnd(bit_type, INODE_TYPE_MASK) IN
  CASE itype_part = INODE_TYPE_FIFO -> Ok("Fifo")
    [] itype_part = INODE_TYPE_FCHR -> Ok("CharacterSpecial")
    [] itype_part = INODE_TYPE_FCHRLNK -> Ok("CharacterSpecialLink")
    [] itype_part = INODE_TYPE_DIR -> Ok("Directory")
    [] itype_part = INODE_TYPE_BLK -> Ok("BlockSpecial")
    [] itype_part = INODE_TYPE_BLKLNK -> Ok("BlockSpecialLink")
    [] itype_part = INODE_TYPE_REG -> Ok("RegularFile")
    [] itype_part = INODE_TYPE_LNK -> Ok("SymbolicLink")
    [] itype_part = INODE_TYPE_SOCK -> Ok("Socket")
    [] OTHER -> Err("String")

\* From<InodeType> for u16
InodeTypeToU16(inode_type) ==
  CASE inode_type = "Fifo" -> INODE_TYPE_FIFO
    [] inode_type = "CharacterSpecial" -> INODE_TYPE_FCHR
    [] inode_type = "CharacterSpecialLink" -> INODE_TYPE_FCHRLNK
    [] inode_type = "Directory" -> INODE_TYPE_DIR
    [] inode_type = "BlockSpecial" -> INODE_TYPE_BLK
    [] inode_type = "BlockSpecialLink" -> INODE_TYPE_BLKLNK
    [] inode_type = "RegularFile" -> INODE_TYPE_REG
    [] inode_type = "SymbolicLink" -> INODE_TYPE_LNK
    [] inode_type = "Socket" -> INODE_TYPE_SOCK

\* ------------------------------------------------------------------------
\* The byte source.  The image is a sequence of 512-byte basic blocks, by
\* absolute block number from 0; a block is one of
\*   [kind |-> "inodes",  slots |-> four raw inodes]      (an inode-table block)
\*   [kind |-> "extents", recs |-> at most 64 raw extents] (packed 8-byte extent
\*                                  records, the rest of the block zero)
\*   [kind |-> "dir", ...]                                 (a directory block)
\*   [kind |-> "zero"]                                     (all bytes zero)
\* read_exact of n bytes at offset o fails with Io when the image ends before
\* o + n.

ImageLen(img) == Len(img) * EFS_BLOCK_SZ

\* read_exact into an empty buffer succeeds wherever the cursor stands.
ReadFits(img, off, n) == n = 0 \/ off + n <= ImageLen(img)

BlockAt(img, off) == img[(off \div EFS_BLOCK_SZ) + 1]

ZeroExtent == [magic |-> 0, ex_bn |-> 0, ex_length |-> 0, ex_offset |-> 0]

\* A raw inode's data field holds the leading 8-byte records of the 96-byte
\* union area; the rest of the area is zero.
ZeroInode ==
  [di_mode |-> 0, di_uid |-> 0, di_gid |-> 0, di_size |-> 0, di_numextents |-> 0,
   data |-> <<>>]

\* Record i (1..12) of a raw inode's union area.
DataRec(raw, i) == IF i <= Len(raw.data) THEN raw.data[i] ELSE ZeroExtent

\* The 8-byte records in the first n bytes of the block at off (n a multiple
\* of 8, off block-aligned unless n = 0), before their magic is checked.  An
\* inode-table block or a directory block starts with a non-zero byte, which
\* is all that matters of it here.
RawExtentsAt(img, off, n) ==
  LET k == n \div EXTENT_SIZE
      b == BlockAt(img, off)
      NotAnExtent == [ZeroExtent EXCEPT !.magic = 1]
  IN IF k = 0 THEN <<>>
     ELSE CASE b.kind = "extents" ->
                 Tuple([i \in 1..k |-> IF i <= Len(b.recs) THEN b.recs[i] ELSE ZeroExtent])
            [] b.kind = "zero" -> Tuple([i \in 1..k |-> ZeroExtent])
            [] OTHER -> Tuple([i \in 1..k |-> NotAnExtent])

\* Extent::parse_extents on already-split records: deku rejects a record
\* whose magic byte is not zero (Unpack); the buffers the code passes are
\* always a multiple of 8 bytes long.
parse_extents(recs) ==
  IF \E i \in 1..Len(recs) : recs[i].magic # 0 THEN Err("Unpack")
  ELSE Ok(Tuple([i \in 1..Len(recs) |->
             [ex_bn |-> recs[i].ex_bn, ex_length |-> recs[i].ex_length,
              ex_offset |-> recs[i].ex_offset]]))

\* EfsInode::read at the cursor position off: the 128 bytes there, decoded.
\* EfsInode has no magic and no enum, so the decode of 128 bytes cannot fail.
\* The offsets inode_start produces are inside a cylinder group's inode
\* table, 128-byte aligned.
RawInodeAt(img, off) ==
  LET b == BlockAt(img, off) IN
  IF b.kind = "inodes" THEN b.slots[((off % EFS_BLOCK_SZ) \div INODE_SIZE) + 1]
  ELSE ZeroInode

\* I/O events, in the order the code makes them.
EvCheck(start, len, r) == [ev |-> "check", off |-> start, len |-> len, ok |-> IsOk(r)]
EvSeek(off) == [ev |-> "seek", off |-> off, len |-> 0, ok |-> TRUE]
EvRead(img, off, n) == [ev |-> "read", off |-> off, len |-> n, ok |-> ReadFits(img, off, n)]

\* An operation's outcome: its result and the I/O events it made.
Out(r, log) == [res |-> r, io |-> log]

\* Efs::read_raw_inode
read_raw_inode(e, img, inode) ==
  LET o == inode_start(e, inode) IN
  IF ~IsOk(o) THEN Out(o, <<>>)
  ELSE LET offset == o.val
           chk == check_read_absolute(e, offset, INODE_SIZE)
       IN IF ~IsOk(chk) THEN Out(chk, <<EvCheck(offset, INODE_SIZE, chk)>>)
          ELSE LET log == <<EvCheck(offset, INODE_SIZE, chk), EvSeek(offset),
                            EvRead(img, offset, INODE_SIZE)>>
               IN IF ~ReadFits(img, offset, INODE_SIZE) THEN Out(Err("Io"), log)
                  ELSE Out(Ok(RawInodeAt(img, offset)), log)

\* ------------------------------------------------------------------------
\* Inode facade

\* TryFrom<&EfsInode> for Inode.  The timestamps are 32-bit seconds, which
\* chrono always maps to a single local time, so that step cannot fail and
\* the times are left out of the record.  di_numextents is an i16, so the
\* MAX_EXTENTS test can never fire.
InodeTryFrom(raw) ==
  LET t == InodeTypeTryFrom(raw.di_mode)
      num_extents == raw.di_numextents
      extent_sz == Min(EXTENT_DATA_AREA_SZ, num_extents * EXTENT_SIZE)
      parsed == parse_extents(Tuple([i \in 1..(extent_sz \div EXTENT_SIZE) |-> DataRec(raw, i)]))
      NonZero(x) == x.ex_length > 0
  IN IF ~IsOk(t) THEN Err("Value")
     ELSE IF raw.di_size < 0 THEN Err("Value")
     ELSE IF raw.di_numextents < 0 THEN Err("Value")
     ELSE IF num_extents > MAX_EXTENTS THEN Err("Value")
     ELSE IF ~IsOk(parsed) THEN parsed
     ELSE Ok([inode_type |-> t.val,
              unix_mode |-> BitAnd(raw.di_mode, INODE_MODE_MASK),
              owner_uid |-> raw.di_uid,
              owner_gid |-> raw.di_gid,
              size |-> raw.di_size,
              num_extents |-> num_extents,
              extents |-> SelectSeq(parsed.val, NonZero)])

\* The expansion reading a whole block for every block of a run, however
\* few records remain.
RECURSIVE ExpandFrom_full_blocks(_, _, _, _, _, _, _, _, _)
ExpandFrom_full_blocks(e, img, runs, i, b, cursor, remaining, acc, log) ==
  IF i > Len(runs) THEN [res |-> Ok(acc), io |-> log]
  ELSE
    LET extent == runs[i]
        from == block_absolute(e, extent.ex_bn)
        sz == extent.ex_length * EFS_BLOCK_SZ
        chk == check_read_absolute(e, from, sz)
        log1 == IF b = 0
                THEN log \o <<[ev |-> "check", off |-> from, len |-> sz, ok |-> IsOk(chk)],
                               [ev |-> "seek", off |-> from, len |-> 0, ok |-> TRUE]>>
                ELSE log
        cur == IF b = 0 THEN from ELSE cursor
        log2 == log1 \o <<[ev |-> "read", off |-> cur, len |-> EFS_BLOCK_SZ,
                            ok |-> ReadFits(img, cur, EFS_BLOCK_SZ)]>>
        block_extents == parse_extents(RawExtentsAt(img, cur, EFS_BLOCK_SZ))
    IN IF b = 0 /\ ~IsOk(chk)
         THEN [res |-> chk,
               io |-> log \o <<[ev |-> "check", off |-> from, len |-> sz, ok |-> FALSE]>>]
       ELSE IF b >= extent.ex_length
         THEN ExpandFrom_full_blocks(e, img, runs, i + 1, 0, cur, remaining, acc, log1)
       ELSE IF ~ReadFits(img, cur, EFS_BLOCK_SZ) THEN [res |-> Err("Io"), io |-> log2]
       ELSE IF ~IsOk(block_extents) THEN [res |-> block_extents, io |-> log2]
       ELSE ExpandFrom_full_blocks(e, img, runs, i, b + 1, cur + EFS_BLOCK_SZ,
                                   remaining - Len(block_extents.val),
                                   acc \o block_extents.val, log2)

\* Inode::expand_extents, from direct extent i (1-based) and block b (0-based)
\* of it on: cursor is the reader's position, remaining is indirect_remaining,
\* acc the extents parsed so far, log the I/O made so far.  A block's read
\* takes min(512, remaining * 8) bytes at the cursor, which then stands that
\* many bytes further on; the run is sought to once, before its first block.
RECURSIVE ExpandFrom(_, _, _, _, _, _, _, _, _)
ExpandFrom(e, img, runs, i, b, cursor, remaining, acc, log) ==
  IF i > Len(runs) THEN Out(Ok(acc), log)
  ELSE
    LET extent == runs[i]
        from == block_absolute(e, extent.ex_bn)
        sz == extent.ex_length * EFS_BLOCK_SZ
        chk == check_read_absolute(e, from, sz)
        log1 == IF b = 0 THEN log \o <<EvCheck(from, sz, chk), EvSeek(from)>> ELSE log
        cur == IF b = 0 THEN from ELSE cursor
        block_read_sz == Min(EFS_BLOCK_SZ, remaining * EXTENT_SIZE)
        log2 == log1 \o <<EvRead(img, cur, block_read_sz)>>
        block_extents == parse_extents(RawExtentsAt(img, cur, block_read_sz))
    IN IF b = 0 /\ ~IsOk(chk) THEN Out(chk, log \o <<EvCheck(from, sz, chk)>>)
       ELSE IF b >= extent.ex_length
         THEN ExpandFrom(e, img, runs, i + 1, 0, cur, remaining, acc, log1)
       ELSE IF ~ReadFits(img, cur, block_read_sz) THEN Out(Err("Io"), log2)
       ELSE IF ~IsOk(block_extents) THEN Out(block_extents, log2)
       ELSE ExpandFrom(e, img, runs, i, b + 1, cur + block_read_sz,
                       remaining - Len(block_extents.val),
                       acc \o block_extents.val, log2)

\* Inode::expand_extents: the inode's extent list after it (unchanged for
\* direct extents), or the first error.
expand_extents(inode, e, img) ==
  IF inode.num_extents <= EFS_DIRECTEXTENTS THEN Out(Ok(inode.extents), <<>>)
  ELSE ExpandFrom(e, img, inode.extents, 1, 0, 0, inode.num_extents, <<>>, <<>>)

\* Inode::sort_extents: sort_by_key is a stable sort, so extents of equal
\* ex_offset keep their order: extent i goes to the place after every extent
\* of a smaller ex_offset and every earlier extent of the same ex_offset.
sort_extents(s) ==
  LET n == Len(s)
      place == Tuple([i \in 1..n |->
                  Cardinality({j \in 1..n : \/ s[j].ex_offset < s[i].ex_offset
                                            \/ s[j].ex_offset = s[i].ex_offset /\ j <= i})])
  IN Tuple([p \in 1..n |-> s[CHOOSE i \in 1..n : place[i] = p]])

\* Inode::check_extents, from extent i on with the running offset.
RECURSIVE CheckFrom(_, _, _)
CheckFrom(s, i, offset) ==
  IF i > Len(s) THEN Ok(<<>>)
  ELSE IF offset = s[i].ex_offset THEN CheckFrom(s, i + 1, offset + s[i].ex_length)
  ELSE Err("Value")

\* check_extents accepting an extent that starts after the previous one ends.
RECURSIVE CheckFromLoose(_, _, _)
CheckFromLoose(s, i, offset) ==
  IF i > Len(s) THEN Ok(<<>>)
  ELSE IF offset <= s[i].ex_offset
    THEN CheckFromLoose(s, i + 1, s[i].ex_offset + s[i].ex_length)
  ELSE Err("Value")

check_extents_loose(s) == CheckFromLoose(s, 1, 0)

\* Inode::check_extents
check_extents(s) == CheckFrom(s, 1, 0)

\* Inode::normalize_extents after expand_extents, whose outcome is x: sort
\* and check.
NormalizeExpanded(inode, x, sorted) ==
  IF ~IsOk(check_extents(sorted)) THEN Out(Err("Value"), x.io)
  ELSE Out(Ok([inode EXCEPT !.extents = sorted]), x.io)

NormalizeSort(inode, x) ==
  IF ~IsOk(x.res) THEN x ELSE NormalizeExpanded(inode, x, sort_extents(x.res.val))

\* Inode::normalize_extents: expand, sort, check.
normalize_extents(inode, e, img) == NormalizeSort(inode, expand_extents(inode, e, img))

\* Efs::read_inode, after read_raw_inode (outcome raw), Inode::try_from
\* (outcome inode) and normalize_extents (outcome norm).
ReadInodeNormalized(raw, norm) == Out(norm.res, raw.io \o norm.io)

ReadInodeDecoded(e, img, raw, inode) ==
  IF ~IsOk(inode) THEN Out(inode, raw.io)
  ELSE ReadInodeNormalized(raw, normalize_extents(inode.val, e, img))

ReadInodeRaw(e, img, raw) ==
  IF ~IsOk(raw.res) THEN raw ELSE ReadInodeDecoded(e, img, raw, InodeTryFrom(raw.res.val))

\* Efs::read_inode
read_inode(e, img, n) == ReadInodeRaw(e, img, read_raw_inode(e, img, n))

\* ------------------------------------------------------------------------
\* Block iterator

\* Inode::iter
NewIter(inode) == [inode |-> inode, extent |-> 0, block |-> 0]

\* An iterator that starts over from the first extent once it has returned
\* None.
IterNextOf_restarting(it) ==
  IF it.extent >= Len(it.inode.extents)
  THEN [ret |-> Err("None"), it |-> [it EXCEPT !.extent = 0, !.block = 0]]
  ELSE LET extent == it.inode.extents[it.extent + 1]
           block_num == extent.ex_bn + it.block
           blk == it.block + 1
       IN [ret |-> Ok(block_num),
           it |-> IF blk >= extent.ex_length
                  THEN [it EXCEPT !.extent = it.extent + 1, !.block = 0]
                  ELSE [it EXCEPT !.block = blk]]

\* InodeBlockIter::next: the value returned (Ok(block) for Some, Err("None")
\* for None) and the iterator afterwards.
IterNextOf(it) ==
  IF it.extent >= Len(it.inode.extents) THEN [ret |-> Err("None"), it |-> it]
  ELSE LET extent == it.inode.extents[it.extent + 1]
           block_num == extent.ex_bn + it.block
           blk == it.block + 1
       IN [ret |-> Ok(block_num),
           it |-> IF blk >= extent.ex_length
                  THEN [it EXCEPT !.extent = it.extent + 1, !.block = 0]
                  ELSE [it EXCEPT !.block = blk]]

\* ------------------------------------------------------------------------
\* Directory block

DIR_HEADER_SZ == 4
DIR_SPACE_SZ == 508
DIRENT_MIN_SIZE == 8
DIR_MAX_ENTRIES == DIR_SPACE_SZ \div DIRENT_MIN_SIZE

\* Byte i (0-based, i < 508) of a directory block's space array; the block
\* record holds the array's leading bytes, the rest are zero.
SpaceByte(b, i) == IF i < Len(b.space) THEN b.space[i + 1] ELSE 0

\* The decode of an entry cutting the name at the end of space when the
\* slice ends before the name does.
DirectoryEntryAt_truncated(b, offset) ==
  LET avail == DIR_SPACE_SZ - offset
      d_namelen == SpaceByte(b, offset + 4)
      kept == Min(d_namelen, avail - 5)
  IN IF avail < 5 THEN Err("Unpack")
     ELSE Ok([inode |-> ((SpaceByte(b, offset) * 256 + SpaceByte(b, offset + 1)) * 256
                          + SpaceByte(b, offset + 2)) * 256 + SpaceByte(b, offset + 3),
              d_namelen |-> d_namelen,
              d_name |-> [i \in 1..kept |-> SpaceByte(b, offset + 4 + i)]])

\* DirectoryEntry::from_bytes on space[offset..]: a big-endian u32 inode, a
\* length byte and that many name bytes; deku fails (Unpack) when the slice
\* ends first.
DirectoryEntryAt(b, offset) ==
  LET avail == DIR_SPACE_SZ - offset
      d_namelen == SpaceByte(b, offset + 4)
  IN IF avail < 5 THEN Err("Unpack")
     ELSE IF avail < 5 + d_namelen THEN Err("Unpack")
     ELSE Ok([inode |-> ((SpaceByte(b, offset) * 256 + SpaceByte(b, offset + 1)) * 256
                          + SpaceByte(b, offset + 2)) * 256 + SpaceByte(b, offset + 3),
              d_namelen |-> d_namelen,
              d_name |-> [i \in 1..d_namelen |-> SpaceByte(b, offset + 4 + i)]])

\* The resolution of a slot taking the compact offset relative to the
\* block's firstused byte.
SlotEntry_from_firstused(b, slot) ==
  LET compact_offset == SpaceByte(b, slot)
      offset == b.firstused + compact_offset * 2 - DIR_HEADER_SZ
  IN IF compact_offset < DIR_HEADER_SZ \div 2 THEN Err("Bounds")
     ELSE IF offset >= DIR_SPACE_SZ THEN Err("Bounds")
     ELSE DirectoryEntryAt(b, offset)

\* The resolution of a slot taking the compact offset from the start of
\* space, the header size not subtracted.
SlotEntry_no_header(b, slot) ==
  LET compact_offset == SpaceByte(b, slot)
      offset == compact_offset * 2
  IN IF compact_offset < DIR_HEADER_SZ \div 2 THEN Err("Bounds")
     ELSE IF offset >= DIR_SPACE_SZ THEN Err("Bounds")
     ELSE DirectoryEntryAt(b, offset)

\* DirectoryBlock::dir_entries, the body of the loop for slot (0-based): the
\* entry the slot resolves to, or the error the loop stops with.
SlotEntry(b, slot) ==
  LET compact_offset == SpaceByte(b, slot)
      offset == compact_offset * 2 - DIR_HEADER_SZ
  IN IF compact_offset < DIR_HEADER_SZ \div 2 THEN Err("Bounds")
     ELSE IF offset >= DIR_SPACE_SZ THEN Err("Bounds")
     ELSE DirectoryEntryAt(b, offset)

\* DirectoryBlock::dir_entries, the loop over the slots, rs[i] being the
\* outcome of slot i - 1: the error of the first slot that fails, or all
\* the entries in slot order.
DirEntriesOf(rs) ==
  IF \E i \in 1..Len(rs) : ~IsOk(rs[i])
  THEN rs[CHOOSE i \in 1..Len(rs) : ~IsOk(rs[i]) /\ \A k \in 1..(i - 1) : IsOk(rs[k])]
  ELSE Ok(Tuple([i \in 1..Len(rs) |-> rs[i].val]))

DirEntriesFrom(b) == DirEntriesOf(Tuple([i \in 1..b.slots |-> SlotEntry(b, i - 1)]))

\* dir_entries refusing a block that has the maximum number of slots.
dir_entries_max_refused(b) ==
  IF b.slots >= DIR_MAX_ENTRIES THEN Err("Value")
  ELSE DirEntriesFrom(b)

\* DirectoryBlock::dir_entries
dir_entries(b) ==
  IF b.slots > DIR_MAX_ENTRIES THEN Err("Value")
  ELSE DirEntriesFrom(b)

\* DirectoryBlock::read at the cursor position off (block-aligned): 512 bytes
\* decoded; deku rejects a block that does not start with BE EF (Unpack).
DirectoryBlockAt(img, off) ==
  LET b == BlockAt(img, off) IN
  IF b.kind = "dir" THEN Ok(b) ELSE Err("Unpack")

\* String::from_utf8 accepts exactly the well-formed UTF-8 byte sequences.
IsCont(c) == 128 <= c /\ c <= 191

RECURSIVE Utf8Valid(_)
Utf8Valid(bs) ==
  LET n == Len(bs)
      Rest(k) == SubSeq(bs, k + 1, n)
  IN IF n = 0 THEN TRUE
     ELSE LET c == bs[1] IN
       IF c < 128 THEN Utf8Valid(Rest(1))
       ELSE IF 194 <= c /\ c <= 223
         THEN n >= 2 /\ IsCont(bs[2]) /\ Utf8Valid(Rest(2))
       ELSE IF 224 <= c /\ c <= 239
         THEN n >= 3 /\ IsCont(bs[2]) /\ IsCont(bs[3])
              /\ (c = 224 => bs[2] >= 160) /\ (c = 237 => bs[2] <= 159)
              /\ Utf8Valid(Rest(3))
       ELSE IF 240 <= c /\ c <= 244
         THEN n >= 4 /\ IsCont(bs[2]) /\ IsCont(bs[3]) /\ IsCont(bs[4])
              /\ (c = 240 => bs[2] >= 144) /\ (c = 244 => bs[2] <= 143)
              /\ Utf8Valid(Rest(4))
       ELSE FALSE

\* BTreeMap::insert: a later entry of the same name replaces the earlier one.
MapInsert(m, k, v) == [x \in (DOMAIN m) \cup {k} |-> IF x = k THEN v ELSE m[x]]

\* ------------------------------------------------------------------------
\* Directory listing

\* Efs::seek_block's own test of the block's offset.
seek_block_check(e, block) ==
  IF block_absolute(e, block) > e.partition_start + e.size THEN Err("Bounds") ELSE Ok(<<>>)

\* The loops of read_dir.  DirBlocksFrom is the loop over the directory
\* inode's blocks, from the iterator it on; DirEntryStep is the loop over one
\* block's entries, from entry i (1-based) on, after which the block loop goes
\* on; entries is the map built so far and log the I/O made so far.
RECURSIVE DirBlocksFrom(_, _, _, _, _)
RECURSIVE DirEntryStep(_, _, _, _, _, _, _)

\* The read of an entry's inode whose failure is passed over, the listing
\* going on with the next entry.
DirEntryRead_skipping(e, img, it, block_entries, i, entries, log, entry_inode) ==
  IF ~IsOk(entry_inode.res)
  THEN DirEntryStep(e, img, it, block_entries, i + 1, entries, log \o entry_inode.io)
  ELSE DirEntryStep(e, img, it, block_entries, i + 1,
         MapInsert(entries, block_entries[i].d_name,
                   [id |-> block_entries[i].inode, inode |-> entry_inode.res.val]),
         log \o entry_inode.io)

\* What follows the read of entry i's inode, whose outcome is entry_inode.
DirEntryRead(e, img, it, block_entries, i, entries, log, entry_inode) ==
  IF ~IsOk(entry_inode.res) THEN Out(entry_inode.res, log \o entry_inode.io)
  ELSE DirEntryStep(e, img, it, block_entries, i + 1,
         MapInsert(entries, block_entries[i].d_name,
                   [id |-> block_entries[i].inode, inode |-> entry_inode.res.val]),
         log \o entry_inode.io)

DirEntryStep(e, img, it, block_entries, i, entries, log) ==
  IF i > Len(block_entries) THEN DirBlocksFrom(e, img, it, entries, log)
  ELSE IF ~Utf8Valid(block_entries[i].d_name) THEN Out(Err("Value"), log)
  ELSE DirEntryRead(e, img, it, block_entries, i, entries, log,
                    read_inode(e, img, block_entries[i].inode))

\* What follows dir_entries on the block read, whose outcome is block_entries.
DirBlockEntries(e, img, it, entries, log, block_entries) ==
  IF ~IsOk(block_entries) THEN Out(block_entries, log)
  ELSE DirEntryStep(e, img, it, block_entries.val, 1, entries, log)

\* What follows DirectoryBlock::read, whose outcome is dir_block.
DirBlockRead(e, img, it, entries, log, dir_block) ==
  IF ~IsOk(dir_block) THEN Out(dir_block, log)
  ELSE DirBlockEntries(e, img, it, entries, log, dir_entries(dir_block.val))

\* One block of the directory: the bounds check, the seek and the read.
DirBlock1(e, img, it, entries, log, block, off, chk) ==
  IF ~IsOk(chk) THEN Out(chk, log \o <<EvCheck(off, EFS_BLOCK_SZ, chk)>>)
  ELSE IF ~IsOk(seek_block_check(e, block))
    THEN Out(Err("Bounds"), log \o <<EvCheck(off, EFS_BLOCK_SZ, chk)>>)
  ELSE IF ~ReadFits(img, off, EFS_BLOCK_SZ)
    THEN Out(Err("Io"), log \o <<EvCheck(off, EFS_BLOCK_SZ, chk), EvSeek(off),
                                 EvRead(img, off, EFS_BLOCK_SZ)>>)
  ELSE DirBlockRead(e, img, it, entries,
                    log \o <<EvCheck(off, EFS_BLOCK_SZ, chk), EvSeek(off),
                             EvRead(img, off, EFS_BLOCK_SZ)>>,
                    DirectoryBlockAt(img, off))

\* What follows the iterator's next(), which returned nx.
DirBlockNext(e, img, entries, log, nx) ==
  IF ~IsOk(nx.ret) THEN Out(Ok(entries), log)
  ELSE DirBlock1(e, img, nx.it, entries, log, nx.ret.val,
                 block_absolute(e, nx.ret.val),
                 check_read_block(e, nx.ret.val, EFS_BLOCK_SZ))

DirBlocksFrom(e, img, it, entries, log) ==
  DirBlockNext(e, img, entries, log, IterNextOf(it))

\* The end of read_dir: the Directory, or the loops' error.
DirResult(directory_inode, r) ==
  IF ~IsOk(r.res) THEN r
  ELSE Out(Ok([directory_inode |-> directory_inode, entries |-> r.res.val]), r.io)

\* read_dir without the test of the inode's type.
DirOfInode_any_type(e, img, d) ==
  IF ~IsOk(d.res) THEN d
  ELSE DirResult(d.res.val, DirBlocksFrom(e, img, NewIter(d.res.val), <<>>, d.io))

\* What follows read_dir's read of the directory inode, whose outcome is d.
DirOfInode(e, img, d) ==
  IF ~IsOk(d.res) THEN d
  ELSE IF d.res.val.inode_type # "Directory" THEN Out(Err("Value"), d.io)
  ELSE DirResult(d.res.val, DirBlocksFrom(e, img, NewIter(d.res.val), <<>>, d.io))

\* Directory::read_dir
read_dir(e, img, inode) == DirOfInode(e, img, read_inode(e, img, inode))

\* ------------------------------------------------------------------------
\* Volume header.  A header on disk is the record of its decoded fields:
\*   [len, magic, vh_rootpt, vh_swappt, vh_bootfile, vh_dp, vh_vd, vh_pt,
\*    vh_csum]
\* len is the number of bytes the byte source holds, magic whether the first
\* four bytes are 0B E5 A9 41, vh_pt[i].pt_type the stored big-endian i32.

VH_SIZE == 512
N_PAR_TAB == 16
N_VOL_DIR == 15
BOOTF_NAME_SZ == 16
VDNAME_SZ == 8

\* The flag bit of dp_flags that says Command Tag Queueing is enabled.
DP_CTQ_EN == 4096

\* enum PartitionType, by discriminant 0..14.
PartitionTypes ==
  <<"VolumeHeader", "Unsupported1", "Unsupported2", "Raw", "Unsupported4",
    "Unsupported5", "EntireVolume", "Efs", "LogicalVolume", "RawLogicalVolume",
    "Xfs", "XfsLog", "Xlv", "Xvm", "Vxvm">>

\* The decoding of a partition-table entry's type: a discriminant that is not
\* one of the enum's fails the whole decode.
PartitionTypeOf(id) ==
  IF id >= 0 /\ id < Len(PartitionTypes) THEN Ok(PartitionTypes[id + 1]) ELSE Err("Unpack")

\* The header's decode validating the type only of partitions in use.
VolumeHeaderRead_skip_unused(h) ==
  IF h.len < VH_SIZE THEN Err("Io")
  ELSE IF ~h.magic THEN Err("Unpack")
  ELSE IF \E i \in 1..N_PAR_TAB : h.vh_pt[i].pt_nblks > 0 /\ ~IsOk(PartitionTypeOf(h.vh_pt[i].pt_type))
    THEN Err("Unpack")
  ELSE Ok([vh_rootpt |-> h.vh_rootpt, vh_swappt |-> h.vh_swappt,
           vh_bootfile |-> h.vh_bootfile, vh_dp |-> h.vh_dp, vh_vd |-> h.vh_vd,
           vh_pt |-> [i \in 1..N_PAR_TAB |->
                        [pt_nblks |-> h.vh_pt[i].pt_nblks,
                         pt_firstlbn |-> h.vh_pt[i].pt_firstlbn,
                         pt_type |-> IF IsOk(PartitionTypeOf(h.vh_pt[i].pt_type))
                                     THEN PartitionTypeOf(h.vh_pt[i].pt_type).val
                                     ELSE "VolumeHeader"]],
           vh_csum |-> h.vh_csum])

\* The header's decode refusing a stored checksum other than the one the
\* header's writer leaves (0 here).
VolumeHeaderRead_csum_checked(h) ==
  IF h.len < VH_SIZE THEN Err("Io")
  ELSE IF ~h.magic THEN Err("Unpack")
  ELSE IF \E i \in 1..N_PAR_TAB : ~IsOk(PartitionTypeOf(h.vh_pt[i].pt_type)) THEN Err("Unpack")
  ELSE IF h.vh_csum # 0 THEN Err("Value")
  ELSE Ok([vh_rootpt |-> h.vh_rootpt, vh_swappt |-> h.vh_swappt,
           vh_bootfile |-> h.vh_bootfile, vh_dp |-> h.vh_dp, vh_vd |-> h.vh_vd,
           vh_pt |-> [i \in 1..N_PAR_TAB |->
                        [pt_nblks |-> h.vh_pt[i].pt_nblks,
                         pt_firstlbn |-> h.vh_pt[i].pt_firstlbn,
                         pt_type |-> PartitionTypeOf(h.vh_pt[i].pt_type).val]],
           vh_csum |-> h.vh_csum])

\* raw::VolumeHeader::read: 512 bytes read (Io when the source is shorter),
\* then decoded: the magic and every partition type are validated (Unpack).
VolumeHeaderRead(h) ==
  IF h.len < VH_SIZE THEN Err("Io")
  ELSE IF ~h.magic THEN Err("Unpack")
  ELSE IF \E i \in 1..N_PAR_TAB : ~IsOk(PartitionTypeOf(h.vh_pt[i].pt_type)) THEN Err("Unpack")
  ELSE Ok([vh_rootpt |-> h.vh_rootpt, vh_swappt |-> h.vh_swappt,
           vh_bootfile |-> h.vh_bootfile, vh_dp |-> h.vh_dp, vh_vd |-> h.vh_vd,
           vh_pt |-> [i \in 1..N_PAR_TAB |->
                        [pt_nblks |-> h.vh_pt[i].pt_nblks,
                         pt_firstlbn |-> h.vh_pt[i].pt_firstlbn,
                         pt_type |-> PartitionTypeOf(h.vh_pt[i].pt_type).val]],
           vh_csum |-> h.vh_csum])

\* crate::bytes_to_string: None (<<>>) for a block of zero bytes, otherwise
\* Some (<<text>>) of the bytes with the trailing zero bytes trimmed.  What it
\* does with a byte that is not ASCII is not given; it is taken to refuse it,
\* and no header explored holds one.
RECURSIVE TrimEnd(_)
TrimEnd(bs) ==
  IF bs = <<>> THEN bs
  ELSE IF bs[Len(bs)] = 0 THEN TrimEnd(SubSeq(bs, 1, Len(bs) - 1))
  ELSE bs

bytes_to_string(bs) ==
  IF \E i \in 1..Len(bs) : bs[i] > 127 THEN Err("Value")
  ELSE IF TrimEnd(bs) = <<>> THEN Ok(<<>>)
  ELSE Ok(<<TrimEnd(bs)>>)

\* From<&PartitionTable> for Partition
PartitionFrom(pt) ==
  [partition_type |-> pt.pt_type, block_sz |-> pt.pt_nblks, block_start |-> pt.pt_firstlbn]

\* What follows bytes_to_string on the entry's name: a block start that is
\* neither -1 nor non-negative is refused.
VolumeFileNamed_no_quirk(vd, file_name) ==
  IF ~IsOk(file_name) THEN file_name
  ELSE IF vd.vd_lbn < 0 THEN Err("Value")
  ELSE IF vd.vd_nbytes < 0 THEN Err("Value")
  ELSE Ok([file_name |-> file_name.val, block_start |-> vd.vd_lbn, file_sz |-> vd.vd_nbytes])

\* TryFrom<&VolumeDirectory> for VolumeFile, after bytes_to_string on the
\* entry's name, whose outcome is file_name.
VolumeFileNamed(vd, file_name) ==
  IF ~IsOk(file_name) THEN file_name
  ELSE IF vd.vd_lbn # -1 /\ vd.vd_lbn < 0 THEN Err("Value")
  ELSE IF vd.vd_nbytes < 0 THEN Err("Value")
  ELSE Ok([file_name |-> file_name.val,
           block_start |-> IF vd.vd_lbn = -1 THEN 0 ELSE vd.vd_lbn,
           file_sz |-> vd.vd_nbytes])

\* TryFrom<&VolumeDirectory> for VolumeFile
VolumeFileTryFrom(vd) == VolumeFileNamed(vd, bytes_to_string(vd.vd_name))

\* The collect of the converted volume-directory entries fs: the first error
\* in entry order, or all the files.
CollectFiles(fs) ==
  IF \E i \in 1..Len(fs) : ~IsOk(fs[i])
  THEN fs[CHOOSE i \in 1..Len(fs) : ~IsOk(fs[i]) /\ \A k \in 1..(i - 1) : IsOk(fs[k])]
  ELSE Ok(Tuple([i \in 1..Len(fs) |-> fs[i].val]))

\* TryFrom<&VolumeHeader> for SgidiskVolume, after the boot-file name and the
\* files have been converted.
SgidiskVolumeOf(vh, boot_file, files) ==
  IF vh.vh_rootpt < 0 THEN Err("Value")
  ELSE IF vh.vh_swappt < 0 THEN Err("Value")
  ELSE IF ~IsOk(boot_file) THEN boot_file
  ELSE IF ~IsOk(files) THEN files
  ELSE Ok([sector_sz |-> vh.vh_dp.dp_secbytes,
           ctq_enabled |-> BitAnd(vh.vh_dp.dp_flags, DP_CTQ_EN) = DP_CTQ_EN,
           ctq_depth |-> vh.vh_dp.dp_ctq_depth,
           root_partition |-> vh.vh_rootpt,
           swap_partition |-> vh.vh_swappt,
           partitions |-> Tuple([i \in 1..N_PAR_TAB |-> PartitionFrom(vh.vh_pt[i])]),
           boot_file |-> boot_file.val,
           files |-> files.val,
           compat_cylinders |-> vh.vh_dp.dp_cylinders,
           compat_heads |-> vh.vh_dp.dp_heads,
           compat_sect |-> vh.vh_dp.dp_sect,
           compat_drivecap |-> vh.vh_dp.dp_drivecap])

\* TryFrom<&VolumeHeader> for SgidiskVolume
SgidiskVolumeTryFrom(vh) ==
  SgidiskVolumeOf(vh, bytes_to_string(vh.vh_bootfile),
                  CollectFiles(Tuple([i \in 1..N_VOL_DIR |-> VolumeFileTryFrom(vh.vh_vd[i])])))

\* What follows VolumeHeader::read, whose outcome is raw.
SgidiskVolumeDecoded(raw) == IF IsOk(raw) THEN SgidiskVolumeTryFrom(raw.val) ELSE raw

\* SgidiskVolume::read
SgidiskVolumeRead(h) == SgidiskVolumeDecoded(VolumeHeaderRead(h))

\* ------------------------------------------------------------------------
\* Views of a volume header: the info listing and the items to hash.  An
\* Option is an empty or a one-element tuple; identifiers count from 0.

\* Partition::in_use with every entry taken as used.
PartitionInUse_always(p) == p.block_sz >= 0

\* Partition::in_use
PartitionInUse(p) == p.block_sz > 0

\* VolumeFile::in_use
VolumeFileInUse(f) == f.file_name # <<>>

\* The elements of the set of numbers S in ascending order.
Ordered(S) ==
  Tuple([k \in 1..Cardinality(S) |-> CHOOSE x \in S : Cardinality({y \in S : y < x}) = k - 1])

\* usize::to_string for an identifier below 100: its decimal digits.
ToDecimal(n) == IF n < 10 THEN <<48 + n>> ELSE <<48 + (n \div 10), 48 + (n % 10)>>

\* JsonVolumeInfo::from, with JsonVhFileInfo::from and JsonPartitionInfo::from,
\* for an image file of file_sz bytes.
JsonVolumeInfoFrom(vh, file_sz) ==
  LET JsonVhFileInfoFrom(f) ==
        LET end_bytes == f.block_start * EFS_BLOCK_SZ + f.file_sz IN
        [file_name |-> IF f.file_name # <<>> THEN f.file_name[1] ELSE <<>>,
         start_block |-> f.block_start,
         size_bytes |-> f.file_sz,
         over_length |-> IF end_bytes > file_sz THEN <<end_bytes - file_sz>> ELSE <<>>]
      JsonPartitionInfoFrom(p) ==
        LET end_block == p.block_start + p.block_sz
            end_byte == end_block * EFS_BLOCK_SZ
        IN [partition_type |-> p.partition_type,
            start_block |-> p.block_start,
            end_block |-> end_block,
            sz_blocks |-> p.block_sz,
            over_length |-> IF end_byte > file_sz THEN <<end_byte - file_sz>> ELSE <<>>]
  IN [sector_sz |-> vh.sector_sz,
      ctq_enabled |-> vh.ctq_enabled,
      ctq_depth |-> vh.ctq_depth,
      root_partition |-> vh.root_partition,
      swap_partition |-> vh.swap_partition,
      boot_file |-> vh.boot_file,
      vh_files |-> [id \in {i \in 0..(Len(vh.files) - 1) : VolumeFileInUse(vh.files[i + 1])}
                      |-> JsonVhFileInfoFrom(vh.files[id + 1])],
      partitions |-> [id \in {i \in 0..(Len(vh.partitions) - 1) :
                                PartitionInUse(vh.partitions[i + 1])}
                        |-> JsonPartitionInfoFrom(vh.partitions[id + 1])]]

\* MultiHash.  A hasher is the sequence of bytes fed to it, each byte named
\* by its offset in the image file and the sequence kept as runs
\* [from, to) of consecutive offsets: update appends, so two updates with
\* adjoining bytes leave the hasher as one update with both does.  The
\* digest finalize returns stands for the sequence fed.
MultiHashNew == <<>>

MultiHashUpdate(h, from, to) ==
  IF from >= to THEN h
  ELSE IF h # <<>> /\ h[Len(h)].to = from THEN [h EXCEPT ![Len(h)].to = to]
  ELSE Append(h, [from |-> from, to |-> to])

\* sort_by_key(|h| -h.end), a stable sort: item i goes after every item of a
\* greater end and every earlier item of the same end.
SortByEndDescending(s) ==
  LET n == Len(s)
      place == Tuple([i \in 1..n |->
                  Cardinality({j \in 1..n : \/ s[j].end > s[i].end
                                            \/ s[j].end = s[i].end /\ j <= i})])
  IN Tuple([p \in 1..n |-> s[CHOOSE i \in 1..n : place[i] = p]])

\* hashed_items: the files in use, then the partitions in use, sorted by
\* descending end, each with a new hasher (Some(MultiHash::new())) and no
\* result yet.
hashed_items(vh) ==
  LET file_ids == Ordered({i \in 0..(Len(vh.files) - 1) : VolumeFileInUse(vh.files[i + 1])})
      part_ids == Ordered({i \in 0..(Len(vh.partitions) - 1) :
                             PartitionInUse(vh.partitions[i + 1])})
      FileItem(f) ==
        LET start == f.block_start * EFS_BLOCK_SZ IN
        [name_display |-> f.file_name[1], name_json |-> f.file_name[1],
         item_type |-> "VolumeFile", start |-> start, end |-> start + f.file_sz,
         hashed |-> 0, hash |-> <<MultiHashNew>>, hash_result |-> <<>>]
      PartitionItem(id, p) ==
        [name_display |-> <<IF id < 10 THEN <<32>> \o ToDecimal(id) ELSE ToDecimal(id),
                            p.partition_type>>,
         name_json |-> ToDecimal(id),
         item_type |-> "Partition", start |-> p.block_start * EFS_BLOCK_SZ,
         end |-> (p.block_start + p.block_sz) * EFS_BLOCK_SZ,
         hashed |-> 0, hash |-> <<MultiHashNew>>, hash_result |-> <<>>]
  IN SortByEndDescending(
       [k \in 1..Len(file_ids) |-> FileItem(vh.files[file_ids[k] + 1])]
       \o [k \in 1..Len(part_ids) |-> PartitionItem(part_ids[k], vh.partitions[part_ids[k] + 1])])

\* ------------------------------------------------------------------------
\* The hash pass

HASH_BUF_SZ == 16384

\* window_overlap with the end of the overlap not cut at the item's end.
window_overlap_unclipped(item, start, end) ==
  IF item.end <= start \/ item.start >= end THEN <<>>
  ELSE <<[start |-> IF item.start > start THEN item.start - start ELSE 0,
          end |-> end - start]>>

\* HashItem::window_overlap: None, or the range of the buffer window
\* [start, end) that the item's range covers.
window_overlap(item, start, end) ==
  IF item.end <= start \/ item.start >= end THEN <<>>
  ELSE <<[start |-> IF item.start > start THEN item.start - start ELSE 0,
          end |-> Min(item.end, end) - start]>>

\* HashItem::short_by
short_by(item) ==
  LET sz == item.end - item.start IN
  IF item.hashed # sz THEN <<sz - item.hashed>> ELSE <<>>

\* HashItem::finalize
HashItemFinalize(item) == [item EXCEPT !.hash = <<>>, !.hash_result = <<item.hash[1]>>]

\* fill_hashes, the body of the loop over the items for item i after a read
\* that filled the buffer with the bytes [pos, end) of the file: the item and
\* its finished flag afterwards.
FillItem(item, finished, pos, end, overlap) ==
  IF finished THEN [item |-> item, finished |-> TRUE]
  ELSE IF item.end < pos THEN [item |-> item, finished |-> TRUE]
  ELSE IF overlap = <<>> THEN [item |-> item, finished |-> FALSE]
  ELSE [item |-> [item EXCEPT
                    !.hashed = item.hashed + (overlap[1].end - overlap[1].start),
                    !.hash = <<MultiHashUpdate(item.hash[1], pos + overlap[1].start,
                                               pos + overlap[1].end)>>],
        finished |-> FALSE]

\* fill_hashes, one turn of the read loop in which read returned n > 0.
FillRead(h, n) ==
  LET end == h.pos + n
      filled == [i \in 1..Len(h.items) |->
                   FillItem(h.items[i], h.finished[i], h.pos, end,
                            window_overlap(h.items[i], h.pos, end))]
  IN [h EXCEPT !.image_hash = MultiHashUpdate(h.image_hash, h.pos, end),
               !.items = Tuple([i \in 1..Len(h.items) |-> filled[i].item]),
               !.finished = Tuple([i \in 1..Len(h.items) |-> filled[i].finished]),
               !.pos = end,
               !.reads = h.reads + 1]

\* fill_hashes from its start to the read loop: the flags, the seek to 0 and
\* the hasher of the whole image.
FillStart(items) ==
  [items |-> items, finished |-> Tuple([i \in 1..Len(items) |-> FALSE]), pos |-> 0,
   image_hash |-> MultiHashNew, reads |-> 0, done |-> FALSE]

\* fill_hashes after the read that returned 0: the items finalized.
FillEnd(h) ==
  [h EXCEPT !.items = Tuple([i \in 1..Len(h.items) |-> HashItemFinalize(h.items[i])]),
            !.done = TRUE]

\* ------------------------------------------------------------------------
\* Bounds of the model

\* Extent records drawn freely in an inode's direct area.
MaxDirect == 3
\* Inode numbers passed to read_inode, read_dir and inode_start: 0..MaxIno.
MaxIno == 9

\* ------------------------------------------------------------------------
\* The images explored.  A partition has its first cylinder group at basic
\* block 2, cylinder groups of 4 blocks and one block (4 inodes) of inode
\* table in each, so relative blocks 2, 6 and 10 are inode-table blocks and
\* the others hold data:
\*   inode 2 is the root directory, inode 3 the file whose extents vary,
\*   inode 0 a fifo, inode 4 a one-block regular file, inode 1 unused (zero),
\*   inodes 5, 6, 7 do not decode (unknown type, negative size, negative
\*   extent count);
\*   blocks 3 and 7 are the root directory's blocks, blocks 4 and 5 hold the
\*   file's indirect extent records.

MODE_DIR == INODE_TYPE_DIR + 493    \* 0o040755
MODE_REG == INODE_TYPE_REG + 420    \* 0o100644
MODE_FIFO == INODE_TYPE_FIFO + 420  \* 0o010644
MODE_BAD == 5 * 4096                \* 0o050000: no inode type

Ext(bn, len, off) == [magic |-> 0, ex_bn |-> bn, ex_length |-> len, ex_offset |-> off]

RawIno(mode, size, numextents, recs) ==
  [di_mode |-> mode, di_uid |-> 0, di_gid |-> 0, di_size |-> size,
   di_numextents |-> numextents, data |-> recs]

ZeroBlock == [kind |-> "zero"]
InodesBlock(s) == [kind |-> "inodes", slots |-> s]
ExtentsBlock(recs) == [kind |-> "extents", recs |-> recs]

\* A directory block holding the entries es (each [ino, name], ino < 256, a
\* name of at most 3 bytes): the slot table in bytes 0..7 of space, entry i
\* in the 8 bytes from offset 8 * i, and the header's slots field as given.
DirBlock(es, slots) ==
  LET n == Len(es)
      Byte(j) ==
        IF j < 8 THEN (IF j < n THEN (8 * (j + 1) + DIR_HEADER_SZ) \div 2 ELSE 0)
        ELSE LET en == es[(j \div 8)]
                 k == j % 8
             IN IF k < 3 THEN 0
                ELSE IF k = 3 THEN en.ino
                ELSE IF k = 4 THEN Len(en.name)
                ELSE IF k - 4 <= Len(en.name) THEN en.name[k - 4]
                ELSE 0
  IN [kind |-> "dir", firstused |-> 0, slots |-> slots,
      space |-> Tuple([j \in 1..(8 * (n + 1)) |-> Byte(j - 1)])]

DEnt(ino, name) == [ino |-> ino, name |-> name]
Dot == <<46>>
DotDot == <<46, 46>>
NameA == <<97>>
NameB == <<98>>
NameBad == <<255>>

\* The superblocks (with the caller's sector size and partition start) of the
\* images, and how many blocks the image file has beyond (or short of) the
\* partition's end.
Geom(ps, size, cgisize, ncg) ==
  [fs_size |-> size, fs_firstcg |-> 2, fs_cgfsize |-> 4, fs_cgisize |-> cgisize,
   fs_ncg |-> ncg, sector_sz |-> EFS_BLOCK_SZ, partition_start |-> ps]

GeomPlain == Geom(0, 10, 1, 2)
GeomShifted == Geom(1024, 10, 1, 3)
GeomLong == Geom(1024, 12, 1, 3)
GeomNoInodes == Geom(0, 10, 0, 2)

\* The image of a partition with superblock g, extra blocks after (or, when
\* negative, missing before) the partition's end, root inode root, file
\* inode f, directory blocks dirA and dirB and indirect blocks x1 and x2.
Layout(g, extra, root, f, dirA, dirB, x1, x2) ==
  LET lead == g.partition_start \div EFS_BLOCK_SZ
      Rel(r) ==
        CASE r = 2 -> InodesBlock(<<RawIno(MODE_FIFO, 0, 0, <<>>), ZeroInode, root, f>>)
          [] r = 6 -> InodesBlock(<<RawIno(MODE_REG, 512, 1, <<Ext(9, 1, 0)>>),
                                    RawIno(MODE_BAD, 0, 0, <<>>),
                                    RawIno(MODE_REG, -1, 0, <<>>),
                                    RawIno(MODE_REG, 0, -1, <<>>)>>)
          [] r = 10 -> InodesBlock(<<RawIno(MODE_REG, 0, 0, <<>>), ZeroInode, ZeroInode, ZeroInode>>)
          [] r = 3 -> dirA
          [] r = 7 -> dirB
          [] r = 4 -> x1
          [] r = 5 -> x2
          [] OTHER -> ZeroBlock
  IN Tuple([a \in 1..(lead + g.fs_size + extra) |->
              IF a - 1 < lead THEN ZeroBlock ELSE Rel(a - 1 - lead)])

RootPlain == RawIno(MODE_DIR, 512, 1, <<Ext(3, 1, 0)>>)
DirPlain == DirBlock(<<DEnt(2, Dot), DEnt(2, DotDot), DEnt(3, NameA), DEnt(4, NameB)>>, 4)
FilePlain == RawIno(MODE_REG, 1024, 2, <<Ext(8, 1, 0), Ext(9, 1, 1)>>)

\* Direct files: every choice of up to MaxDirect extent records in the
\* direct area, in any order, contiguous or not, with numextents counting
\* them, one fewer or one more.
ExLens == {0, 1, 2}
ExOffs == {0, 1, 2}

RECURSIVE DirectRecs(_)
DirectRecs(k) ==
  IF k = 0 THEN {<<>>}
  ELSE {Append(s, Ext(6 + k, l, o)) : s \in DirectRecs(k - 1), l \in ExLens, o \in ExOffs}

DirectFiles ==
  {RawIno(MODE_REG, 512, Len(recs), recs) : recs \in UNION {DirectRecs(k) : k \in 0..MaxDirect}}
  \cup {RawIno(MODE_REG, 512, n, <<Ext(7, 1, 0), Ext(8, 2, 1)>>) : n \in {1, 3}}
  \cup {RawIno(MODE_REG, 512, 2, <<[Ext(7, 1, 0) EXCEPT !.magic = m1],
                                   Ext(8, 1, 1),
                                   [Ext(9, 1, 2) EXCEPT !.magic = m3]>>) : m1, m3 \in {0, 1}}

DirectImages ==
  {Layout(GeomPlain, 0, RootPlain, f, DirPlain, ZeroBlock, ZeroBlock, ZeroBlock) : f \in DirectFiles}

\* Indirect files: numextents above 12, the direct area holding the runs of
\* indirect blocks, and blocks 4 and 5 holding a chain of records: record i
\* is one block long at logical offset i - 1, but for one fault.
IndirectCounts == {13, 20, 66}
ChainFaults == {"none", "zerolen", "gap", "magic"}

ChainRec(i, fault, p) ==
  CASE fault = "zerolen" -> Ext(100 + i, IF i = p THEN 0 ELSE 1, IF i <= p THEN i - 1 ELSE i - 2)
    [] fault = "gap" -> Ext(100 + i, 1, IF i = p THEN i ELSE i - 1)
    [] fault = "magic" -> [Ext(100 + i, 1, i - 1) EXCEPT !.magic = IF i = p THEN 1 ELSE 0]
    [] fault = "long" -> Ext(100 + 2 * i, 2, 2 * (i - 1))
    [] OTHER -> Ext(100 + i, 1, i - 1)

Chains(n) ==
  {[i \in 1..m |-> ChainRec(i, "none", 0)] : m \in {n - 1, n, n + 1}}
  \cup {[i \in 1..n |-> ChainRec(i, fault, p)] : fault \in ChainFaults, p \in {1, n}}
  \cup {[i \in 1..n |-> ChainRec(n + 1 - i, "none", 0)], [i \in 1..n |-> ChainRec(i, "long", 0)]}

IndirectRuns ==
  {<<>>, <<Ext(4, 1, 0)>>, <<Ext(4, 2, 0)>>, <<Ext(4, 1, 0), Ext(5, 1, 0)>>,
   <<Ext(8, 1, 0)>>, <<Ext(9, 2, 0)>>}

IndirectImagesOf(g, extra) ==
  UNION {{Layout(g, extra, RootPlain, RawIno(MODE_REG, 512, n, runs), DirPlain, ZeroBlock,
                 ExtentsBlock(SubSeq(c, 1, Min(64, Len(c)))),
                 ExtentsBlock(SubSeq(c, 65, Len(c)))) :
            c \in Chains(n), runs \in IndirectRuns} : n \in IndirectCounts}

\* Directories: the root inode's type and extents, and what its blocks hold.
RootInodes ==
  {RootPlain,
   RawIno(MODE_DIR, 1024, 2, <<Ext(3, 1, 0), Ext(7, 1, 1)>>),
   RawIno(MODE_DIR, 1024, 2, <<Ext(7, 1, 1), Ext(3, 1, 0)>>),
   RawIno(MODE_REG, 512, 1, <<Ext(3, 1, 0)>>),
   RawIno(MODE_DIR, 512, 1, <<Ext(8, 1, 0)>>),
   RawIno(MODE_DIR, 512, 1, <<Ext(2, 1, 0)>>),
   RawIno(MODE_DIR, 1024, 1, <<Ext(9, 2, 0)>>),
   RawIno(MODE_DIR, 512, 1, <<Ext(200, 1, 0)>>)}

DirBlocksA ==
  {DirPlain,
   DirBlock(<<>>, 0),
   DirBlock(<<DEnt(2, Dot), DEnt(3, NameA), DEnt(4, NameA)>>, 3),
   DirBlock(<<DEnt(2, Dot), DEnt(9, NameBad)>>, 2),
   DirBlock(<<DEnt(3, NameA), DEnt(5, NameB)>>, 2),
   DirBlock(<<DEnt(3, NameA), DEnt(9, NameB)>>, 2),
   DirBlock(<<DEnt(3, NameA)>>, 2),
   DirBlock(<<DEnt(3, NameA)>>, 64)}

DirBlocksB ==
  {DirBlock(<<DEnt(4, NameB)>>, 1), DirBlock(<<DEnt(4, NameA)>>, 1),
   DirBlock(<<DEnt(2, NameBad)>>, 1)}

DirImagesOf(g, extra) ==
  {Layout(g, extra, root, FilePlain, a, b, ZeroBlock, ZeroBlock) :
     root \in RootInodes, a \in DirBlocksA, b \in DirBlocksB}

\* A partition of 502 blocks whose inode 3 has 20 extents, listed in one run
\* of two indirect blocks at block 500.
GeomFar == Geom(0, 502, 1, 2)

FarImage ==
  [Layout(GeomFar, 0, RootPlain, RawIno(MODE_REG, 512, 20, <<Ext(500, 2, 0)>>),
          DirPlain, ZeroBlock, ZeroBlock, ZeroBlock)
     EXCEPT ![501] = ExtentsBlock([i \in 1..20 |-> ChainRec(i, "none", 0)])]

Scene(g, img) == [sb |-> g, image |-> img]

Scenes ==
  {Scene(GeomPlain, i) : i \in DirectImages \cup IndirectImagesOf(GeomPlain, 0)
                               \cup DirImagesOf(GeomPlain, 0)}
  \cup {Scene(GeomShifted, i) : i \in IndirectImagesOf(GeomShifted, -5)
                                      \cup DirImagesOf(GeomShifted, 1)}
  \cup {Scene(GeomLong, i) : i \in DirImagesOf(GeomLong, -1)}
  \cup {Scene(GeomNoInodes, i) : i \in DirImagesOf(GeomNoInodes, 0)}
  \cup {Scene(GeomFar, FarImage)}

\* ------------------------------------------------------------------------
\* The state machine: a caller holding an Efs and the byte source, calling
\* read_inode and read_dir and walking an inode's blocks.

NoCall == [op |-> "none", arg |-> 0]
NoRes == Err("NoCall")
NoHash == <<>>
InodeNums == 0..MaxIno

Init ==
  /\ \E sc \in Scenes : sb = sc.sb /\ image = sc.image
  /\ efs = EfsRead(sb)
  /\ call = NoCall
  /\ res = NoRes
  /\ io = <<>>
  /\ iter = <<>>
  /\ out = <<>>
  /\ hash = NoHash

\* Every operation is a function of the Efs, the image and its arguments:
\* the Efs is immutable, and the reader is positioned by an absolute seek
\* before anything is read from it.  A call is therefore modelled from the
\* state in which the caller holds no result, to which Return leads back.

\* efs.read_inode(reader, n)
ReadInode(n) ==
  /\ IsOk(efs)
  /\ call = NoCall
  /\ LET r == read_inode(efs.val, image, n) IN
       /\ call' = [op |-> "read_inode", arg |-> n]
       /\ res' = r.res
       /\ io' = r.io
  /\ UNCHANGED <<sb, efs, image, iter, out, hash>>

\* Directory::read_dir(reader, efs, n)
ReadDir(n) ==
  /\ IsOk(efs)
  /\ call = NoCall
  /\ LET r == read_dir(efs.val, image, n) IN
       /\ call' = [op |-> "read_dir", arg |-> n]
       /\ res' = r.res
       /\ io' = r.io
  /\ UNCHANGED <<sb, efs, image, iter, out, hash>>

\* inode.iter() on the Inode read_inode has just returned
Iter ==
  /\ call.op = "read_inode"
  /\ IsOk(res)
  /\ iter = <<>>
  /\ iter' = <<NewIter(res.val)>>
  /\ out' = <<>>
  /\ call' = [op |-> "iter", arg |-> call.arg]
  /\ UNCHANGED <<sb, efs, image, res, io, hash>>

\* iterator.next()
IterNext ==
  /\ iter # <<>>
  /\ LET nx == IterNextOf(iter[1]) IN
       /\ iter' = <<nx.it>>
       /\ res' = nx.ret
       /\ out' = IF IsOk(nx.ret) THEN Append(out, nx.ret.val) ELSE out
  /\ call' = [op |-> "next", arg |-> call.arg]
  /\ UNCHANGED <<sb, efs, image, io, hash>>

\* The caller is done with the result (and with the iterator and the Inode
\* it borrows, if any).
Return ==
  /\ call # NoCall
  /\ call' = NoCall
  /\ res' = NoRes
  /\ io' = <<>>
  /\ iter' = <<>>
  /\ out' = <<>>
  /\ UNCHANGED <<sb, efs, image, hash>>

Next ==
  \/ \E n \in InodeNums : ReadInode(n)
  \/ \E n \in InodeNums : ReadDir(n)
  \/ Iter
  \/ IterNext
  \/ Return

Spec == Init /\ [][Next]_vars

\* ------------------------------------------------------------------------
\* The geometry operations on their own: Efs::read on a superblock, then
\* check_read_absolute and inode_start on the Efs it gives.

SbFields ==
  [fs_size : {-1, 8, 40}, fs_firstcg : {-1, 1, 2}, fs_cgfsize : {-1, 2, 5},
   fs_cgisize : {-1, 0, 1, 2}, fs_ncg : {-1, 1, 3},
   sector_sz : {EFS_BLOCK_SZ}, partition_start : {0, 1024}]

\* At most one field negative: the conversion stops at the first.
NegCount(s) ==
  Cardinality({f \in {"fs_size", "fs_firstcg", "fs_cgfsize", "fs_cgisize", "fs_ncg"} : s[f] < 0})

GeomSbs == {s \in SbFields : NegCount(s) <= 1}

\* Offsets around both ends of the partition window, and read lengths.
Deltas == {-512, -128, -1, 0, 1, 128, 512}
CheckLens == {0, 1, 128, 512}
CheckStarts(r) ==
  IF ~IsOk(r) THEN {}
  ELSE {o \in {r.val.partition_start + d : d \in Deltas}
              \cup {r.val.partition_start + r.val.size + d : d \in Deltas} : o >= 0}

\* Inode numbers passed to inode_start on its own: 0..MaxGeomIno.
MaxGeomIno == 25

InitGeom ==
  /\ sb \in GeomSbs
  /\ efs = EfsRead(sb)
  /\ image = <<>>
  /\ call = NoCall
  /\ res = NoRes
  /\ io = <<>>
  /\ iter = <<>>
  /\ out = <<>>
  /\ hash = NoHash

\* efs.check_read_absolute(start, len)
CheckReadAbsolute(start, len) ==
  /\ IsOk(efs)
  /\ call = NoCall
  /\ call' = [op |-> "check_read_absolute", arg |-> <<start, len>>]
  /\ res' = check_read_absolute(efs.val, start, len)
  /\ UNCHANGED <<sb, efs, image, io, iter, out, hash>>

\* efs.inode_start(n)
InodeStart(n) ==
  /\ IsOk(efs)
  /\ call = NoCall
  /\ call' = [op |-> "inode_start", arg |-> n]
  /\ res' = inode_start(efs.val, n)
  /\ UNCHANGED <<sb, efs, image, io, iter, out, hash>>

NextGeom ==
  \/ \E start \in CheckStarts(efs), len \in CheckLens : CheckReadAbsolute(start, len)
  \/ \E n \in 0..MaxGeomIno : InodeStart(n)
  \/ Return

SpecGeom == InitGeom /\ [][NextGeom]_vars

\* ------------------------------------------------------------------------
\* The mode decoding on its own: InodeType::try_from(u16), u16::from(InodeType)
\* and Inode::try_from on a raw inode of a given mode.

\* The 16-bit modes tried: every value of the four type bits with these
\* permission bits.
ModePerms == {0, 1, 420, 493, 2048, 2541, 4095}
Modes == {t * 4096 + q : t \in 0..15, q \in ModePerms}

InitMode ==
  /\ sb = GeomPlain
  /\ efs = EfsRead(sb)
  /\ image = <<>>
  /\ call = NoCall
  /\ res = NoRes
  /\ io = <<>>
  /\ iter = <<>>
  /\ out = <<>>
  /\ hash = NoHash

\* InodeType::try_from(mode)
TypeTryFrom(mode) ==
  /\ call = NoCall
  /\ call' = [op |-> "type_try_from", arg |-> mode]
  /\ res' = InodeTypeTryFrom(mode)
  /\ UNCHANGED <<sb, efs, image, io, iter, out, hash>>

\* u16::from(t)
TypeInto(t) ==
  /\ call = NoCall
  /\ call' = [op |-> "type_into", arg |-> t]
  /\ res' = Ok(InodeTypeToU16(t))
  /\ UNCHANGED <<sb, efs, image, io, iter, out, hash>>

\* InodeType::try_from on the u16 that u16::from has just returned
TypeBack ==
  /\ call.op = "type_into"
  /\ call' = [op |-> "type_back", arg |-> call.arg]
  /\ res' = InodeTypeTryFrom(res.val)
  /\ UNCHANGED <<sb, efs, image, io, iter, out, hash>>

\* Inode::try_from on a raw inode with this mode and one direct extent
InodeDecode(mode) ==
  /\ call = NoCall
  /\ call' = [op |-> "inode_try_from", arg |-> mode]
  /\ res' = InodeTryFrom(RawIno(mode, 512, 1, <<Ext(1000, 1, 0)>>))
  /\ UNCHANGED <<sb, efs, image, io, iter, out, hash>>

NextMode ==
  \/ \E mode \in Modes : TypeTryFrom(mode)
  \/ \E t \in InodeTypes : TypeInto(t)
  \/ TypeBack
  \/ \E mode \in Modes : InodeDecode(mode)
  \/ Return

SpecMode == InitMode /\ [][NextMode]_vars

\* ------------------------------------------------------------------------
\* DirectoryBlock::dir_entries on its own, on one decoded directory block
\* (image holds just that block).

\* The compact offsets written at the head of the slot table: at most
\* MaxDirSlots of them.  1 is below the floor; 2 points at the table itself;
\* 34 and 38 point at two entries; 253, 254 and 255 point at the last 6, 4
\* and 2 bytes of space.
MaxDirSlots == 2
Compacts == {1, 2, 34, 38, 253, 254, 255}
RECURSIVE SlotTables(_)
SlotTables(n) ==
  IF n = 0 THEN {<<>>}
  ELSE SlotTables(n - 1)
       \cup {Append(t, c) : t \in {u \in SlotTables(n - 1) : Len(u) = n - 1}, c \in Compacts}

\* Bytes 63..507 of space: at offset 64 the entry (261, "ab"), at 72 the
\* entry (9, "c"); at 502 an entry of inode 7 whose name length byte (506)
\* is taillen and whose last byte (507) is "a".
SpaceTail ==
  [taillen \in {0, 1, 2} |->
     Tuple([j \in 1..(DIR_SPACE_SZ - DIR_MAX_ENTRIES) |->
              LET i == j - 1 + DIR_MAX_ENTRIES IN
              CASE i = 66 -> 1 [] i = 67 -> 5 [] i = 68 -> 2 [] i = 69 -> 97 [] i = 70 -> 98
                [] i = 75 -> 9 [] i = 76 -> 1 [] i = 77 -> 99
                [] i = 505 -> 7 [] i = 506 -> taillen [] i = 507 -> 97
                [] OTHER -> 0])]

\* The 508 bytes of space: the slot table c, the rest of the first 63 bytes
\* filled with fill, then SpaceTail.
DirSpace(c, fill, taillen) ==
  c \o [i \in 1..(DIR_MAX_ENTRIES - Len(c)) |-> fill] \o SpaceTail[taillen]

\* The slot tables used: an entry at offset 0 takes its inode number from
\* the table's own first bytes, which is kept below 2^31.
LowInodeTables ==
  {c \in SlotTables(MaxDirSlots) :
     (\E i \in 1..Len(c) : c[i] = 2) => c[1] < 128}

DirTestBlocks ==
  {[kind |-> "dir", firstused |-> fu, slots |-> n, space |-> DirSpace(c, fill, taillen)] :
     fu \in {0, 9}, n \in {0, 1, 2, 3, 63, 64, 255},
     c \in LowInodeTables, fill \in {0, 253}, taillen \in {0, 1, 2}}

InitDir ==
  /\ sb = GeomPlain
  /\ efs = EfsRead(sb)
  /\ image \in {<<b>> : b \in DirTestBlocks}
  /\ call = NoCall
  /\ res = NoRes
  /\ io = <<>>
  /\ iter = <<>>
  /\ out = <<>>
  /\ hash = NoHash

\* dir_block.dir_entries()
DirEntries ==
  /\ call = NoCall
  /\ call' = [op |-> "dir_entries", arg |-> 0]
  /\ res' = dir_entries(image[1])
  /\ UNCHANGED <<sb, efs, image, io, iter, out, hash>>

NextDir ==
  \/ DirEntries
  \/ Return

SpecDir == InitDir /\ [][NextDir]_vars

\* ------------------------------------------------------------------------
\* Efs::read on its own: the superblock decoded, the Efs derived from it with
\* the caller's sector size and partition start.

\* The superblock of a 100000-sector filesystem of 20 cylinder groups.
SbLarge ==
  [fs_size |-> 100000, fs_firstcg |-> 2, fs_cgfsize |-> 5000, fs_cgisize |-> 2,
   fs_ncg |-> 20, sector_sz |-> EFS_BLOCK_SZ, partition_start |-> 0]

WideSbs ==
  [fs_size : {-1, 8, 40}, fs_firstcg : {-1, 1, 2}, fs_cgfsize : {-1, 2, 5},
   fs_cgisize : {-1, 0, 1, 2}, fs_ncg : {-1, 1, 3},
   sector_sz : {EFS_BLOCK_SZ, 2 * EFS_BLOCK_SZ}, partition_start : {0, 1024}]
  \cup {SbLarge}

InitSb ==
  /\ sb \in WideSbs
  /\ efs = NoRes
  /\ image = <<>>
  /\ call = NoCall
  /\ res = NoRes
  /\ io = <<>>
  /\ iter = <<>>
  /\ out = <<>>
  /\ hash = NoHash

\* Efs::read(reader, sector_sz, partition_start)
EfsReadCall ==
  /\ call = NoCall
  /\ efs = NoRes
  /\ call' = [op |-> "efs_read", arg |-> 0]
  /\ efs' = EfsRead(sb)
  /\ UNCHANGED <<sb, image, res, io, iter, out, hash>>

NextSb == EfsReadCall

SpecSb == InitSb /\ [][NextSb]_vars

\* ------------------------------------------------------------------------
\* SgidiskVolume::read on its own, on one 512-byte header (image holds just
\* that header).

Zeros(n) == [i \in 1..n |-> 0]

\* "sash" and "ide" padded with zero bytes.
NameSash == <<115, 97, 115, 104, 0, 0, 0, 0>>
BootIde == <<105, 100, 101>> \o Zeros(BOOTF_NAME_SZ - 3)

\* Device parameters with this sector size and these driver flags.
DevParams(secbytes, flags) ==
  [dp_cylinders |-> 0, dp_heads |-> 0, dp_ctq_depth |-> 4, dp_sect |-> 0,
   dp_secbytes |-> secbytes, dp_flags |-> flags, dp_drivecap |-> 0]

\* A volume directory whose entry at position pos is ("sash", lbn, nbytes),
\* the others unused.
VolDir(pos, lbn, nbytes) ==
  Tuple([i \in 1..N_VOL_DIR |->
           IF i = pos THEN [vd_name |-> NameSash, vd_lbn |-> lbn, vd_nbytes |-> nbytes]
           ELSE [vd_name |-> Zeros(VDNAME_SZ), vd_lbn |-> 0, vd_nbytes |-> 0]])

\* A partition table with the volume header at 0, an EFS partition at 7, the
\* entire volume at 10, and at position pos an entry of this stored type and
\* block count; the others unused.
PartTab(pos, type, nblks) ==
  Tuple([i \in 1..N_PAR_TAB |->
           IF i = pos THEN [pt_nblks |-> nblks, pt_firstlbn |-> 8192, pt_type |-> type]
           ELSE IF i = 9 THEN [pt_nblks |-> 4096, pt_firstlbn |-> 0, pt_type |-> 0]
           ELSE IF i = 8 THEN [pt_nblks |-> 409600, pt_firstlbn |-> 8192, pt_type |-> 7]
           ELSE IF i = 11 THEN [pt_nblks |-> 500000, pt_firstlbn |-> 0, pt_type |-> 6]
           ELSE [pt_nblks |-> 0, pt_firstlbn |-> 0, pt_type |-> 0]])

Headers ==
  {[len |-> VH_SIZE, magic |-> TRUE, vh_rootpt |-> idx[1], vh_swappt |-> idx[2],
    vh_bootfile |-> dp[3], vh_dp |-> DevParams(dp[1], dp[2]),
    vh_vd |-> VolDir(vpos, lbn, nbytes), vh_pt |-> PartTab(ppos, type, nblks),
    vh_csum |-> csum] :
     idx \in {<<2, 1>>, <<-1, 1>>, <<2, -1>>},
     dp \in {<<512, 0, Zeros(BOOTF_NAME_SZ)>>, <<512, 4097, BootIde>>,
             <<0, 0, Zeros(BOOTF_NAME_SZ)>>},
     vpos \in {1, N_VOL_DIR}, lbn \in {-2, -1, 0, 5}, nbytes \in {-1, 0, 100},
     ppos \in {1, N_PAR_TAB}, type \in {-1, 0, 7, 14, 15}, nblks \in {0, 409600},
     csum \in {0, -5}}
  \cup {[len |-> 100, magic |-> TRUE, vh_rootpt |-> 2, vh_swappt |-> 1,
         vh_bootfile |-> Zeros(BOOTF_NAME_SZ), vh_dp |-> DevParams(512, 0),
         vh_vd |-> VolDir(1, 0, 0), vh_pt |-> PartTab(1, 0, 0), vh_csum |-> 0],
        [len |-> VH_SIZE, magic |-> FALSE, vh_rootpt |-> 2, vh_swappt |-> 1,
         vh_bootfile |-> Zeros(BOOTF_NAME_SZ), vh_dp |-> DevParams(512, 0),
         vh_vd |-> VolDir(1, 0, 0), vh_pt |-> PartTab(1, 0, 0), vh_csum |-> 0]}

InitVol ==
  /\ sb = GeomPlain
  /\ efs = NoRes
  /\ image \in {<<h>> : h \in Headers}
  /\ call = NoCall
  /\ res = NoRes
  /\ io = <<>>
  /\ iter = <<>>
  /\ out = <<>>
  /\ hash = NoHash

\* SgidiskVolume::read(reader)
VolumeRead ==
  /\ call = NoCall
  /\ call' = [op |-> "volume_read", arg |-> 0]
  /\ res' = SgidiskVolumeRead(image[1])
  /\ UNCHANGED <<sb, efs, image, io, iter, out, hash>>

\* The sizes of the image file the header was read from.
FileSizes == {VH_SIZE, 213909504, 256000000}

\* JsonVolumeInfo::from(&vol) on the volume just opened, whose image file has
\* file_sz bytes
VolInfo(file_sz) ==
  /\ call.op = "volume_read"
  /\ IsOk(res)
  /\ call' = [op |-> "info", arg |-> file_sz]
  /\ out' = JsonVolumeInfoFrom(res.val, file_sz)
  /\ UNCHANGED <<sb, efs, image, res, io, iter, hash>>

\* hashed_items(&vol.volume_header) on the volume just opened
HashedItems ==
  /\ call.op = "volume_read"
  /\ IsOk(res)
  /\ call' = [op |-> "hashed_items", arg |-> 0]
  /\ out' = hashed_items(res.val)
  /\ UNCHANGED <<sb, efs, image, res, io, iter, hash>>

NextVol ==
  \/ VolumeRead
  \/ \E file_sz \in FileSizes : VolInfo(file_sz)
  \/ HashedItems
  \/ Return

SpecVol == InitVol /\ [][NextVol]_vars

\* ------------------------------------------------------------------------
\* The hash pass over an image file.  The file is its length; read returns
\* between 1 and HASH_BUF_SZ of the bytes left, and 0 at the end of the file.

\* Reads of one pass.
MaxReads == 5

\* An item as hashed_items makes it.
HashItemOf(name, type, start, end) ==
  [name_display |-> name, name_json |-> name, item_type |-> type, start |-> start,
   end |-> end, hashed |-> 0, hash |-> <<MultiHashNew>>, hash_result |-> <<>>]

\* Items: files and partitions start at a block; a file ends anywhere.
HashItems ==
  {HashItemOf(<<97>>, "VolumeFile", 0, 3),
   HashItemOf(<<98>>, "VolumeFile", 512, 512),
   HashItemOf(<<99>>, "VolumeFile", 512, 520),
   HashItemOf(<<100>>, "VolumeFile", 15872, 16390),
   HashItemOf(<<101>>, "VolumeFile", 16384, 16400),
   HashItemOf(<<48>>, "Partition", 0, 32768),
   HashItemOf(<<49>>, "Partition", 512, 16384),
   HashItemOf(<<50>>, "Partition", 40960, 41472)}

HashItemLists ==
  {<<>>} \cup {<<a>> : a \in HashItems}
  \cup {SortByEndDescending(<<a, b>>) : a, b \in HashItems}

FileLens == {0, 515, 16384, 16394, 32768}
ChunkSizes == {1, 2, 7, 512, HASH_BUF_SZ}

InitHash ==
  /\ sb = GeomPlain
  /\ efs = NoRes
  /\ image \in {<<[kind |-> "file", len |-> l]>> : l \in FileLens}
  /\ call = [op |-> "fill_hashes", arg |-> 0]
  /\ res = NoRes
  /\ io = <<>>
  /\ iter = <<>>
  /\ out = <<>>
  /\ hash \in {FillStart(items) : items \in HashItemLists}

\* fh.read(&mut buf) returns n > 0: one turn of the loop
HashRead(n) ==
  /\ hash # NoHash
  /\ ~hash.done
  /\ hash.reads < MaxReads
  /\ n >= 1
  /\ n <= Min(HASH_BUF_SZ, image[1].len - hash.pos)
  /\ hash' = FillRead(hash, n)
  /\ UNCHANGED <<sb, efs, image, call, res, io, iter, out>>

\* fh.read(&mut buf) returns 0: the end of the file, the items are
\* finalized and the hash of the whole image is returned
HashEof ==
  /\ hash # NoHash
  /\ ~hash.done
  /\ hash.pos = image[1].len
  /\ hash' = FillEnd(hash)
  /\ res' = Ok(hash.image_hash)
  /\ UNCHANGED <<sb, efs, image, call, io, iter, out>>

NextHash ==
  \/ \E n \in ChunkSizes \cup {image[1].len - hash.pos} : HashRead(n)
  \/ HashEof

SpecHash == InitHash /\ [][NextHash]_vars

\* ------------------------------------------------------------------------
\* Properties

\* The sum of ex_length over the extents s.
RECURSIVE SumLenFrom(_, _)
SumLenFrom(s, i) == IF i > Len(s) THEN 0 ELSE s[i].ex_length + SumLenFrom(s, i + 1)

SumLen(s) == SumLenFrom(s, 1)

\* prefix[i] is the sum of ex_length over the extents before extent i.
RECURSIVE PrefixFrom(_, _, _, _)
PrefixFrom(s, i, sum, acc) ==
  IF i > Len(s) THEN acc ELSE PrefixFrom(s, i + 1, sum + s[i].ex_length, Append(acc, sum))

PrefixLens(s) == PrefixFrom(s, 1, 0, <<>>)

\* The Inode in the iterator's hands, and the Inode a call returned.
IterExtents == iter[1].inode.extents
ReadInodeOk == call.op = "read_inode" /\ IsOk(res)
ReadDirOk == call.op = "read_dir" /\ IsOk(res)
IterDone == iter # <<>> /\ call.op = "next" /\ res.kind = "None"

\* C1: iterating an Inode that read_inode returned until next() returns None
\* yields exactly as many block numbers as the sum of ex_length over its
\* extents, and every number yielded is ex_bn + k of one of its extents with
\* 0 <= k < ex_length.
C1_IterYieldsSumOfLengths ==
  /\ IterDone => Len(out) = SumLen(IterExtents)
  /\ iter # <<>> =>
       \A j \in 1..Len(out) :
         \E i \in 1..Len(IterExtents) :
           \E k \in 0..(IterExtents[i].ex_length - 1) : out[j] = IterExtents[i].ex_bn + k

\* C2: the j-th value next() returns (j from 0) is ex_bn + (j - ex_offset) of
\* the one extent whose logical range [ex_offset, ex_offset + ex_length)
\* contains j.
C2_IterLogicalOrder ==
  iter # <<>> =>
    \A j \in 1..Len(out) :
      LET holders == {i \in 1..Len(IterExtents) :
                        /\ IterExtents[i].ex_offset <= j - 1
                        /\ j - 1 < IterExtents[i].ex_offset + IterExtents[i].ex_length}
      IN /\ Cardinality(holders) = 1
         /\ \A i \in holders : out[j] = IterExtents[i].ex_bn + (j - 1 - IterExtents[i].ex_offset)

\* The extents s are in ascending ex_offset order and each starts at the sum
\* of the lengths of those before it (so the first starts at 0).
Normalized(s) ==
  LET prefix == PrefixLens(s) IN
  /\ \A i \in 1..Len(s) : s[i].ex_offset = prefix[i]
  /\ \A i \in 1..(Len(s) - 1) : s[i].ex_offset <= s[i + 1].ex_offset

\* C3: every Inode read_inode returns (to the caller, or to read_dir for the
\* directory and its entries) has its extents in ascending ex_offset order,
\* the first at 0 and each at the sum of the lengths before it.
C3_ExtentsNormalized ==
  /\ ReadInodeOk => Normalized(res.val.extents)
  /\ ReadDirOk =>
       /\ Normalized(res.val.directory_inode.extents)
       /\ \A name \in DOMAIN res.val.entries : Normalized(res.val.entries[name].inode.extents)

\* C3 witness: read_inode returned an Inode whose records were not in order
\* on disk (the extent at offset 0 is not the one with the lowest block).
C3_Witness ==
  /\ ReadInodeOk
  /\ Len(res.val.extents) >= 2
  /\ res.val.extents[1].ex_bn > res.val.extents[2].ex_bn

\* The byte range lies in the partition window.
InWindow(off, len) ==
  /\ efs.val.partition_start <= off
  /\ off + len <= efs.val.partition_start + efs.val.size

\* C4: every range read_inode and read_dir read from the byte source lies in
\* [partition_start, partition_start + size] and was covered by a bounds
\* check that succeeded before the read; a failed bounds check is the last
\* thing the call did, and the call failed with Bounds.
C4_ReadsInsideWindow ==
  \A i \in 1..Len(io) :
    /\ io[i].ev = "read" =>
         /\ InWindow(io[i].off, io[i].len)
         /\ \E j \in 1..(i - 1) :
              /\ io[j].ev = "check" /\ io[j].ok
              /\ io[j].off <= io[i].off
              /\ io[i].off + io[i].len <= io[j].off + io[j].len
    /\ io[i].ev = "seek" => i > 1 /\ io[i - 1].ev = "check" /\ io[i - 1].ok /\ io[i - 1].off = io[i].off
    /\ (io[i].ev = "check" /\ ~io[i].ok) => i = Len(io) /\ res.kind = "Bounds"

\* C4 witness: read_dir returned a listing after reading inode records,
\* directory blocks and a block of indirect extents.
C4_Witness ==
  /\ ReadDirOk
  /\ DOMAIN res.val.entries # {}
  /\ \E i \in 1..Len(io) : io[i].ev = "read" /\ io[i].len = INODE_SIZE
  /\ \E i \in 1..Len(io) : io[i].ev = "read" /\ io[i].len = EFS_BLOCK_SZ
  /\ \E i \in 1..Len(io) : io[i].ev = "read" /\ io[i].len = 13 * EXTENT_SIZE

\* C6: for an inode with numextents > 12, read_inode succeeds only if the
\* number of extent records parsed from the indirect runs equals numextents.
C6_IndirectCountMatches ==
  (ReadInodeOk /\ res.val.num_extents > EFS_DIRECTEXTENTS) =>
    Len(res.val.extents) = res.val.num_extents

\* C5: check_read_absolute(o, l) succeeds exactly when partition_start <= o
\* and o + l <= partition_start + size, and fails with Bounds otherwise.
C5_CheckReadAbsoluteIff ==
  call.op = "check_read_absolute" =>
    /\ IsOk(res) <=> InWindow(call.arg[1], call.arg[2])
    /\ ~IsOk(res) => res.kind = "Bounds"

\* C5 witness: a range that ends exactly at the end of a partition that does
\* not start at 0 has been accepted.
C5_Witness ==
  /\ call.op = "check_read_absolute"
  /\ IsOk(res)
  /\ efs.val.partition_start > 0
  /\ call.arg[2] > 0
  /\ call.arg[1] + call.arg[2] = efs.val.partition_start + efs.val.size

\* C7: a raw inode that decodes exposes unix_mode = di_mode & 0x0FFF; mode
\* 0o040755 decodes to type Directory with unix_mode 0o0755.
C7_UnixModeLow12Bits ==
  (call.op = "inode_try_from" /\ IsOk(res)) =>
    /\ res.val.unix_mode = BitAnd(call.arg, 4095)
    /\ call.arg = 16877 => res.val.inode_type = "Directory" /\ res.val.unix_mode = 493

\* The inode type of each value of the four type bits (mode & 0xF000, shifted
\* down 12 bits) that names one.
TagTypes ==
  (1 :> "Fifo") @@ (2 :> "CharacterSpecial") @@ (3 :> "CharacterSpecialLink") @@
  (4 :> "Directory") @@ (6 :> "BlockSpecial") @@ (7 :> "BlockSpecialLink") @@
  (8 :> "RegularFile") @@ (10 :> "SymbolicLink") @@ (12 :> "Socket")

\* C8: the nine inode types and nine values of mode & 0xF000 correspond one
\* to one: u16::from(t) is a value of the type bits alone, different for
\* different t, and InodeType::try_from gives t back; the type decoded from
\* a mode is decided by mode & 0xF000; a mode whose type bits name no type
\* makes the inode decode fail with Value.
C8_TypeBijection ==
  /\ call.op = "type_into" =>
       /\ BitAnd(res.val, INODE_TYPE_MASK) = res.val
       /\ \A t \in InodeTypes \ {call.arg} : InodeTypeToU16(t) # res.val
  /\ call.op = "type_back" => res = Ok(call.arg)
  /\ call.op = "type_try_from" =>
       IF call.arg \div 4096 \in DOMAIN TagTypes
       THEN res = Ok(TagTypes[call.arg \div 4096])
       ELSE ~IsOk(res)
  /\ call.op = "inode_try_from" =>
       IF call.arg \div 4096 \in DOMAIN TagTypes
       THEN IsOk(res) /\ res.val.inode_type = TagTypes[call.arg \div 4096]
       ELSE res.kind = "Value"

\* C8 witness: a type has gone to its u16 and come back.
C8_Witness ==
  /\ call.op = "type_back"
  /\ call.arg = "BlockSpecialLink"
  /\ IsOk(res)

\* C9: when inode_start(n) succeeds it returns
\* partition_start + (cg_start + (n div cg_inodes) * cg_size) * 512
\*                 + (n mod cg_inodes) * 128.
C9_InodeStartFormula ==
  (call.op = "inode_start" /\ IsOk(res)) =>
    res.val = efs.val.partition_start
              + (efs.val.cg_start + (call.arg \div efs.val.cg_inodes) * efs.val.cg_size) * 512
              + (call.arg % efs.val.cg_inodes) * 128

\* C9 witness: the offset of an inode that is neither in the first cylinder
\* group nor first in its group, in a partition that does not start at 0.
C9_Witness ==
  /\ call.op = "inode_start"
  /\ IsOk(res)
  /\ efs.val.partition_start > 0
  /\ call.arg \div efs.val.cg_inodes >= 1
  /\ call.arg % efs.val.cg_inodes >= 1

\* inode_start(n) succeeded for n the first inode of a cylinder group after
\* the first, and inode_start(n - 1) succeeds too.
GroupStep ==
  /\ call.op = "inode_start"
  /\ IsOk(res)
  /\ call.arg >= 1
  /\ call.arg % efs.val.cg_inodes = 0
  /\ IsOk(inode_start(efs.val, call.arg - 1))

\* C10 as stated: from the last inode of a cylinder group to the first of the
\* next, inode_start grows by cg_size * 512 - inodes_per_cg * 128.
C10_GroupJumpAsStated ==
  GroupStep =>
    res.val - inode_start(efs.val, call.arg - 1).val
      = efs.val.cg_size * 512 - efs.val.cg_inodes * 128

\* C10: from the last inode of a cylinder group to the first of the next,
\* inode_start grows by cg_size * 512 - (inodes_per_cg - 1) * 128.
C10_GroupJump ==
  GroupStep =>
    res.val - inode_start(efs.val, call.arg - 1).val
      = efs.val.cg_size * 512 - (efs.val.cg_inodes - 1) * 128

\* C10 witness: such a step, in a geometry with several inodes in a group.
C10_Witness ==
  /\ GroupStep
  /\ efs.val.cg_inodes > 1
  /\ efs.val.partition_start > 0

\* C11: whenever inode_start(n) returns an offset, the 128-byte inode record
\* at that offset lies inside [partition_start, partition_start + size] and
\* n div cg_inodes is less than cg_count.
C11_InodeStartInsideWindow ==
  (call.op = "inode_start" /\ IsOk(res)) =>
    /\ InWindow(res.val, INODE_SIZE)
    /\ call.arg \div efs.val.cg_inodes < efs.val.cg_count

\* The directory block dir_entries was called on, its slot bytes and the
\* place and extent of the entry a slot points at.
DirCall == call.op = "dir_entries"
TheBlock == image[1]
CompactOf(i) == TheBlock.space[i + 1]
RealOffset(i) == CompactOf(i) * 2 - 4
NameLenAt(off) == TheBlock.space[off + 5]
Resolvable(i) ==
  /\ CompactOf(i) >= 2
  /\ RealOffset(i) + 5 <= 508
  /\ RealOffset(i) + 5 + NameLenAt(RealOffset(i)) <= 508

\* The entry decoded at byte offset off of space.
EntryAt(off) ==
  [inode |-> TheBlock.space[off + 1] * 16777216 + TheBlock.space[off + 2] * 65536
             + TheBlock.space[off + 3] * 256 + TheBlock.space[off + 4],
   d_namelen |-> NameLenAt(off),
   d_name |-> SubSeq(TheBlock.space, off + 6, off + 5 + NameLenAt(off))]

\* C12: dir_entries returns one entry per slot, in slot order, entry i
\* decoded at byte offset space[i] * 2 - 4 of space as a big-endian 32-bit
\* inode number, a length byte and that many name bytes; it fails with
\* Bounds at the first slot whose byte is below 2.
C12_SlotResolution ==
  DirCall =>
    /\ IsOk(res) =>
         /\ Len(res.val) = TheBlock.slots
         /\ \A i \in 0..(TheBlock.slots - 1) :
              CompactOf(i) >= 2 /\ res.val[i + 1] = EntryAt(RealOffset(i))
    /\ \A i \in 0..(Min(TheBlock.slots, 63) - 1) :
         (TheBlock.slots <= 63 /\ CompactOf(i) < 2 /\ \A k \in 0..(i - 1) : Resolvable(k))
           => res.kind = "Bounds"

\* C12 witness: two slots resolved to the entries (261, "ab") and (9, "c").
C12_Witness ==
  /\ DirCall
  /\ IsOk(res)
  /\ Len(res.val) = 2
  /\ res.val[1] = [inode |-> 261, d_namelen |-> 2, d_name |-> <<97, 98>>]
  /\ res.val[2] = [inode |-> 9, d_namelen |-> 1, d_name |-> <<99>>]

\* C13: dir_entries fails with Value exactly when slots exceeds 63, whatever
\* the slot bytes are.
C13_SlotsLimit ==
  DirCall => (res.kind = "Value" <=> TheBlock.slots > 63)

\* C13 witness: a block of 64 slots whose first slot byte is below 2 has
\* failed with Value.
C13_Witness ==
  /\ DirCall
  /\ TheBlock.slots = 64
  /\ CompactOf(0) < 2
  /\ res.kind = "Value"

\* A block of 63 slots, all resolvable, has been listed.
C13_FullBlockListed ==
  /\ DirCall
  /\ TheBlock.slots = 63
  /\ IsOk(res)

\* The outcome of read_inode on the inode read_dir was called with.
ListedInode == read_inode(efs.val, image, call.arg)

\* C14: read_dir on an inode whose type is not Directory fails with Value,
\* having read nothing but that inode.
C14_NotADirectory ==
  (call.op = "read_dir" /\ IsOk(ListedInode.res)
     /\ ListedInode.res.val.inode_type # "Directory") =>
    /\ res.kind = "Value"
    /\ io = ListedInode.io

\* C14 witness: read_dir has been called on a regular file that has blocks.
C14_Witness ==
  /\ call.op = "read_dir"
  /\ IsOk(ListedInode.res)
  /\ ListedInode.res.val.inode_type = "RegularFile"
  /\ Len(ListedInode.res.val.extents) >= 1
  /\ res.kind = "Value"

\* The sum of the slots fields of the directory blocks the iterator it has
\* still to yield.
RECURSIVE TotalSlots(_)
TotalSlots(it) ==
  LET nx == IterNextOf(it) IN
  IF ~IsOk(nx.ret) THEN 0
  ELSE BlockAt(image, block_absolute(efs.val, nx.ret.val)).slots + TotalSlots(nx.it)

\* C15: a directory that read_dir returns holds one map entry per directory
\* entry: the size of the map is the number of slots over all its blocks.
C15_OneEntryPerSlot ==
  ReadDirOk =>
    Cardinality(DOMAIN res.val.entries) = TotalSlots(NewIter(res.val.directory_inode))

\* C16: the Efs derived from a superblock has size = fs_size * sector_sz,
\* cg_start = fs_firstcg, cg_size = fs_cgfsize,
\* cg_inodes = (fs_cgisize * 512) / 128 and cg_count = fs_ncg; the superblock
\* fs_size 100000, fs_firstcg 2, fs_cgfsize 5000, fs_cgisize 2, fs_ncg 20
\* with 512-byte sectors gives 51200000, 2, 5000, 8, 20.
C16_DerivedGeometry ==
  /\ (call.op = "efs_read" /\ IsOk(efs)) =>
       /\ efs.val.size = sb.fs_size * sb.sector_sz
       /\ efs.val.cg_start = sb.fs_firstcg
       /\ efs.val.cg_size = sb.fs_cgfsize
       /\ efs.val.cg_inodes = (sb.fs_cgisize * 512) \div 128
       /\ efs.val.cg_count = sb.fs_ncg
  /\ (call.op = "efs_read" /\ sb = SbLarge) =>
       /\ IsOk(efs)
       /\ efs.val.size = 51200000
       /\ efs.val.cg_start = 2
       /\ efs.val.cg_size = 5000
       /\ efs.val.cg_inodes = 8
       /\ efs.val.cg_count = 20

\* C16 witness: an Efs derived with 1024-byte sectors.
C16_Witness ==
  /\ call.op = "efs_read"
  /\ IsOk(efs)
  /\ sb.sector_sz = 1024
  /\ sb.fs_cgisize = 2

\* The 100000-sector superblock has been converted.
C16_LargeConverted == call.op = "efs_read" /\ sb = SbLarge /\ IsOk(efs)

\* One of the five fields is negative, or the inode area is not a whole
\* number of inodes.
SbRefusable ==
  \/ sb.fs_size < 0 \/ sb.fs_firstcg < 0 \/ sb.fs_cgfsize < 0
  \/ sb.fs_cgisize < 0 \/ sb.fs_ncg < 0
  \/ (sb.fs_cgisize * 512) % 128 # 0

\* C17: deriving an Efs fails with Value exactly when one of fs_size,
\* fs_firstcg, fs_cgfsize, fs_cgisize, fs_ncg is negative or fs_cgisize * 512
\* is not a multiple of 128; otherwise it succeeds with non-negative fields.
C17_RefusedExactlyWhenNegative ==
  call.op = "efs_read" =>
    /\ SbRefusable => efs.kind = "Value"
    /\ ~SbRefusable =>
         /\ IsOk(efs)
         /\ efs.val.size >= 0 /\ efs.val.cg_start >= 0 /\ efs.val.cg_size >= 0
         /\ efs.val.cg_inodes >= 0 /\ efs.val.cg_count >= 0

\* C17 witness: a superblock whose only negative field is fs_ncg has been
\* refused.
C17_Witness ==
  /\ call.op = "efs_read"
  /\ sb.fs_ncg < 0
  /\ sb.fs_size >= 0 /\ sb.fs_firstcg >= 0 /\ sb.fs_cgfsize >= 0 /\ sb.fs_cgisize >= 0
  /\ efs.kind = "Value"

\* The header SgidiskVolume::read was called on.
VolCall == call.op = "volume_read"
TheHeader == image[1]
TypeInEnum(t) == t \in 0..14

\* C18: the volume-header decode fails when a partition-table entry, used or
\* not, has a type outside 0..14; when it succeeds there are 16 partitions,
\* each with a type of the enum and the stored block start and block count.
C18_PartitionTypesClosed ==
  VolCall =>
    /\ (\E i \in 1..16 : ~TypeInEnum(TheHeader.vh_pt[i].pt_type)) => ~IsOk(res)
    /\ IsOk(res) =>
         /\ Len(res.val.partitions) = 16
         /\ \A i \in 1..16 :
              /\ res.val.partitions[i].partition_type
                   = PartitionTypes[TheHeader.vh_pt[i].pt_type + 1]
              /\ res.val.partitions[i].block_start = TheHeader.vh_pt[i].pt_firstlbn
              /\ res.val.partitions[i].block_sz = TheHeader.vh_pt[i].pt_nblks

\* C18 witness: a header whose last partition entry has type 15 and no
\* blocks, and is sound otherwise, has been refused.
C18_Witness ==
  /\ VolCall
  /\ TheHeader.magic
  /\ TheHeader.vh_rootpt >= 0 /\ TheHeader.vh_swappt >= 0
  /\ TheHeader.vh_pt[16].pt_type = 15
  /\ TheHeader.vh_pt[16].pt_nblks = 0
  /\ \A i \in 1..15 : TheHeader.vh_vd[i].vd_lbn >= 0 /\ TheHeader.vh_vd[i].vd_nbytes >= 0
  /\ ~IsOk(res)

\* A header with a partition of type 14 has been decoded.
C18_Decoded ==
  /\ VolCall
  /\ IsOk(res)
  /\ res.val.partitions[16].partition_type = "Vxvm"
  /\ res.val.partitions[16].block_sz = 409600

\* The header's bytes are there and decode.
HeaderDecodes ==
  /\ TheHeader.len >= 512
  /\ TheHeader.magic
  /\ \A i \in 1..16 : TypeInEnum(TheHeader.vh_pt[i].pt_type)

\* C19: a volume-directory entry's block start of -1 is exposed as 0, a
\* non-negative one unchanged, and neither makes the decode fail; any other
\* negative block start, or a negative byte size, makes the decode of the
\* volume header fail with Value.
C19_BlockStartQuirk ==
  VolCall =>
    /\ (HeaderDecodes /\ TheHeader.vh_rootpt >= 0 /\ TheHeader.vh_swappt >= 0
          /\ \A i \in 1..15 :
               TheHeader.vh_vd[i].vd_lbn >= -1 /\ TheHeader.vh_vd[i].vd_nbytes >= 0)
         => IsOk(res)
    /\ IsOk(res) =>
         \A i \in 1..15 :
           /\ TheHeader.vh_vd[i].vd_lbn >= -1
           /\ TheHeader.vh_vd[i].vd_nbytes >= 0
           /\ res.val.files[i].block_start
                = IF TheHeader.vh_vd[i].vd_lbn = -1 THEN 0 ELSE TheHeader.vh_vd[i].vd_lbn
    /\ (HeaderDecodes /\ \E i \in 1..15 :
          TheHeader.vh_vd[i].vd_lbn < -1 \/ TheHeader.vh_vd[i].vd_nbytes < 0)
         => res.kind = "Value"

\* C19 witness: a header whose last volume-directory entry has block start
\* -1 has been decoded, the entry exposed with block_start 0.
C19_Witness ==
  /\ VolCall
  /\ IsOk(res)
  /\ TheHeader.vh_vd[15].vd_lbn = -1
  /\ res.val.files[15].block_start = 0
  /\ res.val.files[15].file_sz = 100

\* The checksums tried against the stored one.
Checksums == {-5, 0, 1, 77}

C21_SectorSizeNonzero ==
  (VolCall /\ IsOk(res)) => res.val.sector_sz # 0

\* The firstused bytes tried against the stored one.
FirstUseds == {0, 9, 64, 255}

\* C23: the outcome of dir_entries, entries or error, is the same whatever
\* the block's firstused byte is.
C23_FirstusedIgnored ==
  DirCall =>
    \A f \in FirstUseds : dir_entries([TheBlock EXCEPT !.firstused = f]) = res

\* C23 witness: a block whose firstused byte is 9 has been listed, its
\* slots resolved at offsets 64 and 72 of space.
C23_Witness ==
  /\ DirCall
  /\ TheBlock.firstused = 9
  /\ IsOk(res)
  /\ Len(res.val) = 2
  /\ res.val[1].inode = 261
  /\ res.val[2].inode = 9

\* A block whose firstused byte is 9 has been refused at its second slot.
C23_Refused ==
  /\ DirCall
  /\ TheBlock.firstused = 9
  /\ TheBlock.slots = 2
  /\ CompactOf(0) = 34
  /\ CompactOf(1) = 1
  /\ res.kind = "Bounds"

\* The first slot that cannot be resolved inside space, if there is one.
FirstUnresolvable(i) ==
  /\ i < TheBlock.slots
  /\ ~Resolvable(i)
  /\ \A k \in 0..(i - 1) : Resolvable(k)

\* C30: every slot byte from 2 to 255 gives an offset of at most 506; the
\* entries dir_entries returns lie inside the 508 bytes of space, header and
\* name; a slot whose 5-byte header or whose name would pass byte 507 makes
\* dir_entries fail, with Unpack when the slot byte is 2 or more.
C30_EntriesInsideSpace ==
  DirCall =>
    /\ \A i \in 0..(Min(TheBlock.slots, DIR_MAX_ENTRIES) - 1) :
         CompactOf(i) >= 2 => RealOffset(i) \in 0..506
    /\ IsOk(res) =>
         \A i \in 0..(TheBlock.slots - 1) :
           /\ Resolvable(i)
           /\ Len(res.val[i + 1].d_name) = res.val[i + 1].d_namelen
           /\ RealOffset(i) + 5 + Len(res.val[i + 1].d_name) <= DIR_SPACE_SZ
    /\ \A i \in 0..(DIR_MAX_ENTRIES - 1) :
         (TheBlock.slots <= DIR_MAX_ENTRIES /\ FirstUnresolvable(i))
           => /\ ~IsOk(res)
              /\ CompactOf(i) >= 2 => res.kind = "Unpack"

\* C30 witness: a block whose first slot byte is 253 (offset 502) and whose
\* entry there announces a name of 2 bytes, one more than space holds, has
\* been refused with Unpack.
C30_Witness ==
  /\ DirCall
  /\ TheBlock.slots = 1
  /\ CompactOf(0) = 253
  /\ NameLenAt(502) = 2
  /\ res.kind = "Unpack"

\* The entry at offset 502 with a name of 1 byte, the last byte of space,
\* has been returned.
C30_LastByteNamed ==
  /\ DirCall
  /\ TheBlock.slots = 1
  /\ CompactOf(0) = 253
  /\ IsOk(res)
  /\ res.val[1] = [inode |-> 7, d_namelen |-> 1, d_name |-> <<97>>]

\* A slot byte of 255 (offset 506), which leaves 2 bytes for the 5-byte
\* header, has been refused with Unpack.
C30_HeaderCut ==
  /\ DirCall
  /\ TheBlock.slots = 1
  /\ CompactOf(0) = 255
  /\ res.kind = "Unpack"

\* C28: every Efs decoded from a superblock has cg_inodes >= 1, and
\* read_inode on it ends in an Inode or in an error of the taxonomy, never
\* in an arithmetic fault.
C28_ReadInodeNeverFaults ==
  call.op = "read_inode" =>
    /\ efs.val.cg_inodes >= 1
    /\ res.kind \in {"Ok", "Io", "Unpack", "Value", "Bounds"}

\* The first n values a fresh iterator it yields, fewer if it ends before.
RECURSIVE YieldsFrom(_, _)
YieldsFrom(it, n) ==
  IF n = 0 THEN <<>>
  ELSE LET nx == IterNextOf(it)
       IN IF IsOk(nx.ret) THEN <<nx.ret.val>> \o YieldsFrom(nx.it, n - 1) ELSE <<>>

\* C29: once next() has returned None, a further call returns None and
\* leaves (extent, block) as they are; a call never moves (extent, block)
\* backwards; and a second fresh iterator over the same Inode yields the
\* same values as the first.
C29_IterForwardFused ==
  /\ [](IterDone => IterNextOf(iter[1]) = [ret |-> Err("None"), it |-> iter[1]])
  /\ [](iter # <<>> => out = YieldsFrom(NewIter(iter[1].inode), Len(out)))
  /\ [][(iter # <<>> /\ iter' # <<>>) =>
          /\ iter'[1].inode = iter[1].inode
          /\ (call.op = "next" /\ res.kind = "None") => (res'.kind = "None" /\ iter' = iter)
          /\ \/ iter'[1].extent > iter[1].extent
             \/ iter'[1].extent = iter[1].extent /\ iter'[1].block >= iter[1].block]_vars

\* C29 witness: an iterator over three extents has yielded blocks and then
\* returned None, its position past the last extent.
C29_Witness ==
  /\ IterDone
  /\ Len(iter[1].inode.extents) = 3
  /\ iter[1].extent = 3
  /\ iter[1].block = 0
  /\ Len(out) >= 3

\* The blocks of the directory inode read_dir was called on, in iterator
\* order.
ListedBlocks == YieldsFrom(NewIter(ListedInode.res.val), 8)

\* What read_dir meets at block b before it looks at the block's entries:
\* the entries, or the failure of the bounds check, of the read, of the
\* decode of the block or of the resolution of a slot.
BlockOutcome(b) ==
  LET off == block_absolute(efs.val, b) IN
  IF ~IsOk(check_read_block(efs.val, b, EFS_BLOCK_SZ)) THEN Err("Bounds")
  ELSE IF ~ReadFits(image, off, EFS_BLOCK_SZ) THEN Err("Io")
  ELSE IF ~IsOk(DirectoryBlockAt(image, off)) THEN Err("Unpack")
  ELSE dir_entries(DirectoryBlockAt(image, off).val)

\* What read_dir meets at one entry: a name that is not UTF-8 (Value)
\* whatever the entry's inode is, else the outcome of reading its inode.
EntryOutcome(en) ==
  IF ~Utf8Valid(en.d_name) THEN [o |-> Err("Value"), name_bad |-> TRUE, en |-> en]
  ELSE [o |-> read_inode(efs.val, image, en.inode).res, name_bad |-> FALSE, en |-> en]

\* The steps of read_dir over the blocks bs, in order: for each block its
\* outcome and, when that is a list of entries, the outcome of each entry.
BlockSteps(o) ==
  IF ~IsOk(o) THEN <<[o |-> o, name_bad |-> FALSE, en |-> <<>>]>>
  ELSE [i \in 1..Len(o.val) |-> EntryOutcome(o.val[i])]

RECURSIVE ListingSteps(_)
ListingSteps(bs) ==
  IF bs = <<>> THEN <<>>
  ELSE BlockSteps(BlockOutcome(Head(bs))) \o ListingSteps(Tail(bs))

\* The first step that fails, 0 if none does.
FirstFailure(steps) ==
  IF \A k \in 1..Len(steps) : IsOk(steps[k].o) THEN 0
  ELSE CHOOSE k \in 1..Len(steps) :
         ~IsOk(steps[k].o) /\ \A j \in 1..(k - 1) : IsOk(steps[j].o)

\* The map of a full listing: every entry's name, bound to the number and
\* the Inode of the last entry of that name.
FullListing(steps, entries) ==
  /\ DOMAIN entries = {steps[k].en.d_name : k \in 1..Len(steps)}
  /\ \A k \in 1..Len(steps) :
       (\A j \in (k + 1)..Len(steps) : steps[j].en.d_name # steps[k].en.d_name)
         => entries[steps[k].en.d_name] = [id |-> steps[k].en.inode, inode |-> steps[k].o.val]

\* C26: read_dir returns the failure of reading the directory inode as it
\* is; else it takes the blocks in iterator order and each block's entries
\* in slot order, and returns the first failure met as it is and no map; it
\* returns a map only when no step fails, and then the map lists every entry
\* of every block; a name that is not UTF-8 fails with Value before the
\* entry's inode is read.
C26_FirstFailureReturned ==
  call.op = "read_dir" =>
    /\ ~IsOk(ListedInode.res) => (res = ListedInode.res /\ io = ListedInode.io)
    /\ (IsOk(ListedInode.res) /\ ListedInode.res.val.inode_type = "Directory") =>
         LET steps == ListingSteps(ListedBlocks)
             k == FirstFailure(steps)
         IN IF k = 0
            THEN /\ IsOk(res)
                 /\ res.val.directory_inode = ListedInode.res.val
                 /\ FullListing(steps, res.val.entries)
            ELSE /\ res = steps[k].o
                 /\ steps[k].name_bad => \A j \in 1..Len(io) : io[j].ok

\* C26 witness: a directory of two blocks whose first block's entries were
\* read and whose second block holds a name that is not UTF-8 has been
\* refused with Value.
C26_Witness ==
  /\ call.op = "read_dir"
  /\ IsOk(ListedInode.res)
  /\ Len(ListedBlocks) = 2
  /\ IsOk(BlockOutcome(ListedBlocks[1]))
  /\ Len(BlockOutcome(ListedBlocks[1]).val) = 4
  /\ LET steps == ListingSteps(ListedBlocks)
     IN FirstFailure(steps) = 5 /\ steps[5].name_bad
  /\ res.kind = "Value"

\* An entry whose name is not UTF-8 and whose inode cannot be read (Bounds,
\* after a failed bounds check) has made read_dir fail with Value.
C26_NameBeforeInode ==
  /\ call.op = "read_dir"
  /\ IsOk(ListedInode.res)
  /\ ListedInode.res.val.inode_type = "Directory"
  /\ LET steps == ListingSteps(ListedBlocks)
         k == FirstFailure(steps)
     IN /\ k > 0
        /\ steps[k].name_bad
        /\ LET r == read_inode(efs.val, image, steps[k].en.inode)
           IN r.res.kind = "Bounds" /\ \E j \in 1..Len(r.io) : ~r.io[j].ok
  /\ res.kind = "Value"

\* The read of an entry's inode has failed after an earlier entry was read,
\* and read_dir has returned that failure.
C26_InodeFailure ==
  /\ call.op = "read_dir"
  /\ IsOk(ListedInode.res)
  /\ ListedInode.res.val.inode_type = "Directory"
  /\ LET steps == ListingSteps(ListedBlocks)
         k == FirstFailure(steps)
     IN k = 2 /\ ~steps[k].name_bad /\ steps[k].en # <<>> /\ res = steps[k].o

\* The extent records read_inode(call.arg) hands to the sort: the outcome of
\* expand_extents on the decoded inode.
ReadDecoded == InodeTryFrom(read_raw_inode(efs.val, image, call.arg).res.val)
ReadExpanded == expand_extents(ReadDecoded.val, efs.val, image)
ReadReachesSort ==
  /\ call.op = "read_inode"
  /\ IsOk(read_raw_inode(efs.val, image, call.arg).res)
  /\ IsOk(ReadDecoded)
  /\ IsOk(ReadExpanded.res)

\* The records s with those at places i and i + 1 exchanged.
SwapAt(s, i) == [s EXCEPT ![i] = s[i + 1], ![i + 1] = s[i]]

\* C24: the outcome of read_inode is the same for every order of the same
\* extent records on disk (here: for every exchange of two neighbours, which
\* generate all orders), and it is an Inode or Value.
C24_OrderIndependent ==
  ReadReachesSort =>
    /\ res.kind \in {"Ok", "Value"}
    /\ \A i \in 1..(Len(ReadExpanded.res.val) - 1) :
         NormalizeSort(ReadDecoded.val,
                       Out(Ok(SwapAt(ReadExpanded.res.val, i)), ReadExpanded.io)).res = res

\* read_inode(call.arg) decoded an inode whose extents are indirect.
ReadExpands ==
  /\ call.op = "read_inode"
  /\ IsOk(read_raw_inode(efs.val, image, call.arg).res)
  /\ IsOk(ReadDecoded)
  /\ ReadDecoded.val.num_extents > EFS_DIRECTEXTENTS

\* The reads the expansion made: the reads of the call after the read of
\* the inode itself (check, seek, read).
IsReadEv(x) == x.ev = "read"
ExpansionReads == SelectSeq(SubSeq(io, 4, Len(io)), IsReadEv)

\* The bytes asked for by the reads from read j to read k - 1.
RECURSIVE ReadBytes(_, _, _)
ReadBytes(reads, j, k) == IF j >= k THEN 0 ELSE reads[j].len + ReadBytes(reads, j + 1, k)

\* The run and the block (0-based) of it that the k-th block of the runs is.
RunOfBlock(runs, k) ==
  CHOOSE i \in 1..Len(runs) :
    PrefixLens(runs)[i] < k /\ k <= PrefixLens(runs)[i] + runs[i].ex_length
BlockInRun(runs, k) == k - 1 - PrefixLens(runs)[RunOfBlock(runs, k)]

\* C25: the k-th read of the expansion is for the k-th block of the runs
\* taken in order, at the run's first byte plus what was read of the run
\* before, and asks for min(512, 8 * (numextents - records parsed so far))
\* bytes; the records parsed never exceed numextents; with numextents 20 and
\* one run of two blocks at block 500, 160 bytes are read in all, from the
\* first byte of block 500 on, and 20 extents result.
C25_ExpansionReadSizes ==
  ReadExpands =>
    LET n == ReadDecoded.val.num_extents
        runs == ReadDecoded.val.extents
        reads == ExpansionReads
    IN /\ Len(reads) <= SumLen(runs)
       /\ \A k \in 1..Len(reads) :
            /\ ReadBytes(reads, 1, k) <= EXTENT_SIZE * n
            /\ reads[k].len = Min(EFS_BLOCK_SZ, EXTENT_SIZE * n - ReadBytes(reads, 1, k))
            /\ reads[k].off = block_absolute(efs.val, runs[RunOfBlock(runs, k)].ex_bn)
                                + ReadBytes(reads, k - BlockInRun(runs, k), k)
       /\ IsOk(res) =>
            /\ Len(reads) = SumLen(runs)
            /\ Len(res.val.extents) <= n
            /\ Len(res.val.extents) * EXTENT_SIZE = ReadBytes(reads, 1, Len(reads) + 1)
       /\ (n = 20 /\ runs = <<[ex_bn |-> 500, ex_length |-> 2, ex_offset |-> 0]>>) =>
            /\ IsOk(res)
            /\ Len(res.val.extents) = 20
            /\ reads = <<[ev |-> "read", off |-> 500 * EFS_BLOCK_SZ, len |-> 160, ok |-> TRUE],
                         [ev |-> "read", off |-> 500 * EFS_BLOCK_SZ + 160, len |-> 0, ok |-> TRUE]>>

\* C25 witness: an inode of 20 extents with one run of two blocks at block
\* 500 has been read, 160 bytes of block 500 giving its 20 extents.
C25_Witness ==
  /\ ReadExpands
  /\ ReadDecoded.val.num_extents = 20
  /\ ReadDecoded.val.extents = <<[ex_bn |-> 500, ex_length |-> 2, ex_offset |-> 0]>>
  /\ IsOk(res)
  /\ Len(res.val.extents) = 20
  /\ ReadBytes(ExpansionReads, 1, Len(ExpansionReads) + 1) = 160

\* An inode of 66 extents has been read from two runs, a whole block of 64
\* records and then 16 bytes of the next.
C25_TwoRuns ==
  /\ ReadExpands
  /\ ReadDecoded.val.num_extents = 66
  /\ Len(ReadDecoded.val.extents) = 2
  /\ IsOk(res)
  /\ Len(ExpansionReads) = 2
  /\ ExpansionReads[1].len = 512
  /\ ExpansionReads[2].len = 16

\* The stored block count of partition i (from 0) of the header, and the
\* number a decimal string stands for.
StoredBlocks(i) == TheHeader.vh_pt[i + 1].pt_nblks
DecimalValue(s) == IF Len(s) = 1 THEN s[1] - 48 ELSE (s[1] - 48) * 10 + (s[2] - 48)

C22_ItemsListed ==
  /\ call.op = "hashed_items"
  /\ StoredBlocks(0) = 0
  /\ StoredBlocks(15) = 0
  /\ Len(out) = 4
  /\ out[1].name_json = <<49, 48>>
  /\ \E k \in 1..4 : out[k].item_type = "VolumeFile"

\* The bytes of an item's range that the file has below offset upto, as
\* the hasher holds them when fed each of them once in ascending order.
FedUpTo(item, upto) ==
  IF item.start < Min(item.end, upto)
  THEN <<[from |-> item.start, to |-> Min(item.end, upto)]>>
  ELSE <<>>

\* C27: however the reads split the file, after every read each item's
\* hasher holds the bytes of [start, end) read so far, each once and in
\* ascending order, and hashed counts them; when fill_hashes is over each
\* item's result is the hash of the bytes of [start, end) the file has,
\* short_by is None exactly when every offset of [start, end) is in the
\* file, and (end - start) - hashed otherwise; the image's hash is the hash
\* of the whole file.
C27_HashPassChunkingIndependent ==
  hash # NoHash =>
    LET len == image[1].len IN
    /\ ~hash.done =>
         /\ hash.image_hash = FedUpTo([start |-> 0, end |-> len], hash.pos)
         /\ \A i \in 1..Len(hash.items) :
              /\ hash.items[i].hash = <<FedUpTo(hash.items[i], hash.pos)>>
              /\ hash.items[i].hashed
                   = IF hash.items[i].start < Min(hash.items[i].end, hash.pos)
                     THEN Min(hash.items[i].end, hash.pos) - hash.items[i].start ELSE 0
    /\ hash.done =>
         /\ res = Ok(FedUpTo([start |-> 0, end |-> len], len))
         /\ \A i \in 1..Len(hash.items) :
              LET item == hash.items[i]
                  inside == \A o \in item.start..(item.end - 1) : o < len
              IN /\ item.hash = <<>>
                 /\ item.hash_result = <<FedUpTo(item, len)>>
                 /\ item.hashed = Cardinality({o \in item.start..(item.end - 1) : o < len})
                 /\ short_by(item) = <<>> <=> inside
                 /\ ~inside => short_by(item) = <<(item.end - item.start) - item.hashed>>

\* C27 witness: a file of 16394 bytes has been read in more than two reads,
\* and the item [15872, 16390), which lies across the first 16384 bytes'
\* end, has its 518 bytes hashed and is not short.
C27_Witness ==
  /\ hash # NoHash
  /\ hash.done
  /\ image[1].len = 16394
  /\ hash.reads >= 3
  /\ \E i \in 1..Len(hash.items) :
       /\ hash.items[i].start = 15872
       /\ hash.items[i].end = 16390
       /\ hash.items[i].hashed = 518
       /\ short_by(hash.items[i]) = <<>>

\* The same file and item, read in two reads of 16384 and 10 bytes.
C27_TwoReads ==
  /\ hash # NoHash
  /\ hash.done
  /\ image[1].len = 16394
  /\ hash.reads = 2
  /\ \E i \in 1..Len(hash.items) :
       /\ hash.items[i].start = 15872
       /\ hash.items[i].hashed = 518

\* An item that ends past the end of the file is short by what is missing.
C27_Short ==
  /\ hash # NoHash
  /\ hash.done
  /\ image[1].len = 16394
  /\ \E i \in 1..Len(hash.items) :
       /\ hash.items[i].end = 32768
       /\ hash.items[i].hashed = 16394
       /\ short_by(hash.items[i]) = <<16374>>

====
